---- MODULE Spec2Model ----
(***************************************************************************)
(* Admission engine of claude-code-hub: the rate limit service             *)
(* (src/src/lib/rate-limit/service.ts) over its two collaborators, the     *)
(* cache tier (Redis) and the durable store (the request ledger).          *)
(*                                                                         *)
(* The specifications share the state:                                     *)
(*   SessionSpec  concurrent checkAndTrackProviderSession callers          *)
(*   CostSpec     trackCost and checkCostLimits over a healthy cache       *)
(*                while the clock passes the resets                        *)
(*   ReadSpec     checkCostLimits and getCurrentCost while the cache       *)
(*                tier comes and goes                                      *)
(*   FaultSpec    checkCostLimits and checkUserDailyCost while the cache   *)
(*                tier and the durable store fail and recover              *)
(* Time is counted in hours; amounts are integers in units of 0.00001 USD. *)
(***************************************************************************)
EXTENDS Integers, Sequences, FiniteSets, TLC

\* ------------------------------------------------------------------------
\* Bounds of the model
\* ------------------------------------------------------------------------
NCallers == 3
MaxSessionLimit == 2

MaxCounter == 20     \* the largest sum a rolling set of the cache is let to reach
MaxTrack == 2       \* trackCost / trackUserDailyCost calls in a behaviour

Callers == 1..NCallers
SessionIds == 1..NCallers
\* the providers whose session registry the concurrent callers contend for
SessionProviders == {1}

\* ------------------------------------------------------------------------
\* State
\* ------------------------------------------------------------------------
VARIABLES
    redis,          \* the cache client: "null" (no client), "connecting" (client,
                    \* status not ready), "ready", "erroring" (status ready, but
                    \* commands reject: timeout, protocol or network error)
    activeSessions, \* provider id -> set of registered session ids
                    \* (provider:{id}:active_sessions)
    sessionLimit,   \* provider id -> configured concurrent session ceiling
    call,           \* caller -> the state of its checkAndTrackProviderSession call
    now,            \* Date.now(), in hours
    ledger,         \* the durable store: the sequence of billed requests
    dbUp,           \* the durable store answers its queries (otherwise they throw)
    strings,        \* cache STRING keys: key -> [val, exp], absent keys not in DOMAIN
    zsets,          \* cache ZSET keys: key -> (score -> cost of the entries with that score)
    dailyReset,     \* "key" / "provider" -> [time, mode]: the daily reset configuration
    budget,         \* [track]: the trackCost / trackUserDailyCost calls left
    tracked,        \* history: [sum, kept], the costs trackCost was called with for
                    \* key 1 in the key's current fixed daily window, and whether
                    \* the cache has kept that counter since
    appended,       \* history: instant -> the cost trackCost has appended at that
                    \* instant to the 5h window of key 1
    last,           \* the handler call that has just returned, with its result
    clock,          \* Date.now() of the request-rate limiter and the circuit
                    \* breaker, in seconds
    rpmLimit,       \* the user's configured requests-per-minute ceiling
    rpmWindow,      \* cache keys user:{id}:rpm_window: key -> [entries, exp], entries
                    \* being score -> number of members with that score
    rpmSeen,        \* history: [first, n, admitted, clean], the instant of the first
                    \* checkUserRPM call, the number of calls, score -> number of
                    \* requests admitted at that instant, and whether the cache
                    \* was reachable at every call
    circuit,        \* the provider's circuit: [state, consecutiveFailures,
                    \* consecutiveHalfOpenSuccesses, openedAt]
    circuitConfig,  \* [failureThreshold, openDuration, halfOpenSuccessThreshold]
    streak,         \* history: the failures recorded since the last recorded
                    \* success or manual reset
    trial,          \* history: the successes recorded in a row since the
                    \* circuit last turned half-open
    pool,           \* [candidates, health, affinity]: the providers a request
                    \* may be sent to, what each one's checks answer, and the
                    \* provider the request's session was last served by
    rpmCall,        \* caller -> its checkUserRPM call between the two pipelines:
                    \* [pc, now, count, res]
    overlapped,     \* history: a checkUserRPM call has counted between another
                    \* call's count and insert
    errorRules,     \* the error_rules table: [exists, rows], rows being a set of
                    \* [id, pattern, matchType, category, priority, isEnabled]
    detector,       \* the ErrorRuleDetector singleton: [regexPatterns,
                    \* containsPatterns, exactPatterns, lastReloadTime, isLoading]
    reloading,      \* the reload() call past the isLoading guard: [pc, rules,
                    \* before], the rows its query has read and, as history,
                    \* the caches at its start
    session,        \* getSession() of the caller of a server action: [signedIn, role]
    providerRows,   \* the providers table: id -> [key, failureThreshold, deleted]
    circuitConfigs, \* the circuit configurations saved to the cache tier:
                    \* provider id -> failureThreshold
    selection       \* the selectProvider call of the request: [pc, current,
                    \* attempted, failed, filtered, outcome], failed being the
                    \* providers it has recorded a circuit-breaker failure for

sessionVars == <<activeSessions, sessionLimit, call>>
costVars == <<now, ledger, dbUp, strings, zsets, dailyReset, budget, tracked, appended, last>>
rpmVars == <<clock, rpmLimit, rpmWindow, rpmSeen>>
circuitVars == <<circuit, circuitConfig, streak, trial>>
selectorVars == <<pool, selection>>
raceVars == <<rpmCall, overlapped>>
detectorVars == <<errorRules, detector, reloading>>
adminVars == <<session, providerRows, circuitConfigs>>
otherVars == <<selectorVars, raceVars, detectorVars, adminVars>>
vars == <<redis, sessionVars, costVars, rpmVars, circuitVars, otherVars>>

RedisStates == {"null", "connecting", "ready", "erroring"}

\* this.redis is a client object
redisClient == redis # "null"

\* this.redis.status === "ready"
redisStatusReady == redis \in {"ready", "erroring"}

\* a command sent to the cache is executed (otherwise its promise rejects)
redisCommandOk == redis = "ready"

\* ------------------------------------------------------------------------
\* Concurrency (session) limiter
\* ------------------------------------------------------------------------

\* The atomic claim script: <<allowed, count, tracked, registry after>>.
\* (a)/(d) a session already registered is allowed and not tracked again,
\* (b) an absent session is registered while the cardinality is below the
\* limit, (c) and rejected without registering otherwise; the count returned
\* is the cardinality after the script.
CHECK_AND_TRACK_SESSION(registry, sessionId, limit) ==
    IF sessionId \in registry
    THEN <<1, Cardinality(registry), 0, registry>>
    ELSE IF Cardinality(registry) < limit
         THEN <<1, Cardinality(registry) + 1, 1, registry \cup {sessionId}>>
         ELSE <<0, Cardinality(registry), 0, registry>>

\* A mis-passed ARGV[2]: the script is given one slot more than the limit.
evalCheckAndTrack_OffByOne(registry, sessionId, limit) ==
    CHECK_AND_TRACK_SESSION(registry, sessionId, limit + 1)

\* redis.eval(CHECK_AND_TRACK_SESSION, 1, key, sessionId, limit, now)
evalCheckAndTrack(registry, sessionId, limit) ==
    CHECK_AND_TRACK_SESSION(registry, sessionId, limit)

\* The return value that ignores the script's verdict.
checkAndTrackReturn_IgnoreDenied(result) ==
    [allowed |-> TRUE, count |-> result[2], tracked |-> result[3] = 1, via |-> "script"]

\* The return value that reports every admitted caller as newly tracked.
checkAndTrackReturn_AlwaysTracked(result) ==
    IF result[1] = 0
    THEN [allowed |-> FALSE, count |-> result[2], tracked |-> FALSE, via |-> "script"]
    ELSE [allowed |-> TRUE, count |-> result[2], tracked |-> TRUE, via |-> "script"]

\* const [allowed, count, tracked] = result; the two returns after the eval
checkAndTrackReturn(result) ==
    IF result[1] = 0
    THEN [allowed |-> FALSE, count |-> result[2], tracked |-> FALSE, via |-> "script"]
    ELSE [allowed |-> TRUE, count |-> result[2], tracked |-> result[3] = 1, via |-> "script"]

\* a limiter that turns the caller away where the code lets it through
checkAndTrackFailOpen_Denied(via) ==
    [allowed |-> FALSE, count |-> 0, tracked |-> FALSE, via |-> via]

\* { allowed: true, count: 0, tracked: false }: unlimited, not ready, or caught error
checkAndTrackFailOpen(via) ==
    [allowed |-> TRUE, count |-> 0, tracked |-> FALSE, via |-> via]

\* A caller's record: its arguments, its return value, and the registry as it
\* was right before and right after its script ran ({0}: the script has not run).
NoRegistry == {0}

IdleCall ==
    [pc |-> "idle", providerId |-> 0, sessionId |-> 0, limit |-> 0,
     before |-> NoRegistry, after |-> NoRegistry,
     ret |-> [allowed |-> FALSE, count |-> 0, tracked |-> FALSE, via |-> "none"]]

\* checkAndTrackProviderSession up to its await: the limit <= 0 and the
\* not-ready early returns, otherwise the eval is sent. Callers are numbered
\* in the order their calls arrive.
checkAndTrackProviderSession_call(c, providerId, sessionId) ==
    LET limit == sessionLimit[providerId]
        entered == [call[c] EXCEPT !.providerId = providerId,
                                   !.sessionId = sessionId, !.limit = limit]
    IN  /\ call[c].pc = "idle"
        /\ \A d \in Callers : d < c => call[d].pc # "idle"
        /\ call' = [call EXCEPT ![c] =
              IF limit <= 0
              THEN [entered EXCEPT !.pc = "done", !.ret = checkAndTrackFailOpen("unlimited")]
              ELSE IF ~redisClient \/ ~redisStatusReady
              THEN [entered EXCEPT !.pc = "done", !.ret = checkAndTrackFailOpen("notready")]
              ELSE [entered EXCEPT !.pc = "eval"]]
        /\ UNCHANGED <<redis, activeSessions, sessionLimit, costVars, rpmVars, circuitVars, otherVars>>

\* The eval completes: the script runs atomically in the cache and the
\* result is mapped to the return value; a rejected eval is caught (fail open).
checkAndTrackProviderSession_eval(c) ==
    LET p == call[c].providerId
        result == evalCheckAndTrack(activeSessions[p], call[c].sessionId, call[c].limit)
    IN  /\ call[c].pc = "eval"
        /\ IF redisCommandOk
           THEN /\ activeSessions' = [activeSessions EXCEPT ![p] = result[4]]
                /\ call' = [call EXCEPT ![c] =
                      [@ EXCEPT !.pc = "done", !.before = activeSessions[p],
                                !.after = result[4],
                                !.ret = checkAndTrackReturn(result)]]
           ELSE /\ UNCHANGED activeSessions
                /\ call' = [call EXCEPT ![c] =
                      [@ EXCEPT !.pc = "done", !.ret = checkAndTrackFailOpen("error")]]
        /\ UNCHANGED <<redis, sessionLimit, costVars, rpmVars, circuitVars, otherVars>>

\* The cache tier connects, disconnects or starts rejecting commands.
RedisChange(s) ==
    /\ redis # s
    /\ redis' = s

\* SessionTracker.getProviderSessionCount(id): the cardinality of the
\* provider's registry
getProviderSessionCount(id) == Cardinality(activeSessions[id])

\* checkSessionLimit(id, "provider", limit): the count is read and compared,
\* nothing is registered; an error of the read is caught (fail open)
checkSessionLimitOn(id, limit) ==
    IF limit <= 0 THEN [allowed |-> TRUE, count |-> 0, via |-> "unlimited"]
    ELSE IF ~redisClient \/ ~redisCommandOk
    THEN [allowed |-> TRUE, count |-> 0, via |-> "caught"]
    ELSE LET count == getProviderSessionCount(id)
         IN  [allowed |-> count < limit, count |-> count, via |-> "count"]

checkSessionLimit(id, limit) ==
    /\ last' = [op |-> "checkSessionLimit", id |-> id, limit |-> limit,
                res |-> checkSessionLimitOn(id, limit)]
    /\ UNCHANGED <<redis, sessionVars, rpmVars, circuitVars, otherVars>>
    /\ UNCHANGED <<now, ledger, dbUp, strings, zsets, dailyReset, budget, tracked, appended>>

\* ------------------------------------------------------------------------
\* Clock and time windows (time-utils.ts), in hours. Hour 0 is a Monday
\* 00:00 that is also the first day of a month; a month has 30 days.
\* ------------------------------------------------------------------------
Window5h == 5
Window24h == 24
DayHours == 24
WeekHours == 168
MonthHours == 720

ResetTimes == {"00:00", "18:00"}

\* the reset times a configuration may hold besides those: well-formed ones
\* and a malformed one
ConfiguredResetTimes == ResetTimes \cup {"09:30", "18:30", "25:61"}

\* the hours and minutes of a reset time; a malformed or missing one is read
\* as 00:00
ParseResetTime(resetTime) ==
    CASE resetTime = "18:00" -> [hours |-> 18, minutes |-> 0]
      [] resetTime = "09:30" -> [hours |-> 9, minutes |-> 30]
      [] resetTime = "18:30" -> [hours |-> 18, minutes |-> 30]
      [] OTHER -> [hours |-> 0, minutes |-> 0]

\* a number of the clock in two digits
Pad2(n) == IF n < 10 THEN "0" \o ToString(n) ELSE ToString(n)

\* a string as the sequence of its parts, and back
RECURSIVE Join(_)
Join(parts) == IF parts = <<>> THEN "" ELSE Head(parts) \o Join(Tail(parts))

\* the parts HH, ":", mm of the normalized reset time
NormalizedParts(resetTime) ==
    <<Pad2(ParseResetTime(resetTime).hours), ":", Pad2(ParseResetTime(resetTime).minutes)>>

\* normalizeResetTime: HH:mm; a malformed or missing reset time falls back
\* to 00:00
normalizeResetTime(resetTime) == Join(NormalizedParts(resetTime))

\* the hour of day of a normalized HH:mm reset time
ResetHour(normalized) == IF normalized = "18:00" THEN 18 ELSE 0

\* the last daily reset instant at or before t, and the next one after t
DailyStart(t, normalized) ==
    ((t - ResetHour(normalized)) \div DayHours) * DayHours + ResetHour(normalized)

NextDailyReset(t, normalized) == DailyStart(t, normalized) + DayHours

WeekStart(t) == (t \div WeekHours) * WeekHours

MonthStart(t) == (t \div MonthHours) * MonthHours

\* getTimeRangeForPeriodWithMode: the window [startTime, endTime) at `t`
getTimeRangeForPeriodWithMode(period, resetTime, resetMode, t) ==
    [endTime |-> t,
     startTime |->
        CASE period = "5h" -> t - Window5h
          [] period = "daily" /\ resetMode = "rolling" -> t - Window24h
          [] period = "daily" -> DailyStart(t, normalizeResetTime(resetTime))
          [] period = "weekly" -> WeekStart(t)
          [] OTHER -> MonthStart(t)]

\* getTTLForPeriodWithMode / getTTLForPeriod: the time left at `t` until the
\* window's next reset (the window length for the rolling windows)
getTTLForPeriodWithMode(period, resetTime, resetMode, t) ==
    CASE period = "5h" -> Window5h
      [] period = "daily" /\ resetMode = "rolling" -> Window24h
      [] period = "daily" -> NextDailyReset(t, normalizeResetTime(resetTime)) - t
      [] period = "weekly" -> WeekStart(t) + WeekHours - t
      [] OTHER -> MonthStart(t) + MonthHours - t

\* getSecondsUntilMidnight
getSecondsUntilMidnight(t) == NextDailyReset(t, "00:00") - t

\* ------------------------------------------------------------------------
\* Durable store (repository/statistics.ts)
\* ------------------------------------------------------------------------
UserIds == {1}
Costs == {4, 6}

\* the user owning a key
UserOfKey(keyId) == 1

RECURSIVE SumRows(_, _)
SumRows(rows, i) ==
    IF i > Len(rows) THEN 0 ELSE rows[i].cost + SumRows(rows, i + 1)

\* sumKeyCostInTimeRange / sumProviderCostInTimeRange: the ledger's exact sum
\* for one entity over [startTime, endTime)
sumCostInTimeRange(type, id, startTime, endTime) ==
    SumRows(SelectSeq(ledger, LAMBDA r :
        /\ (IF type = "key" THEN r.keyId ELSE r.providerId) = id
        /\ startTime <= r.t /\ r.t < endTime), 1)

\* sumUserCostToday: the ledger's sum for one user since today's 00:00
sumUserCostToday(userId) ==
    SumRows(SelectSeq(ledger, LAMBDA r :
        UserOfKey(r.keyId) = userId /\ DailyStart(now, "00:00") <= r.t), 1)

\* ------------------------------------------------------------------------
\* Cache tier (Redis): STRING keys with a TTL, ZSET keys of cost entries.
\* A cache is the record [s |-> strings, z |-> zsets].
\* ------------------------------------------------------------------------

\* the cache without any key
EmptyMap == [k \in {} |-> 0]

\* SET key value EX ttl
RedisSet(c, key, value, ttl) ==
    [c EXCEPT !.s = [k \in DOMAIN c.s \cup {key} |->
        IF k = key THEN [val |-> value, exp |-> now + ttl] ELSE c.s[k]]]

\* INCRBYFLOAT key cost, then EXPIRE key ttl (an absent key counts from 0)
RedisIncrExpire(c, key, cost, ttl) ==
    RedisSet(c, key, (IF key \in DOMAIN c.s THEN c.s[key].val ELSE 0) + cost, ttl)

\* A ZSET of cost entries is kept as the function from a score (the time of
\* the entry) to the cost of the members with that score: the scripts evict
\* by score and sum the costs, and read nothing else of a member.
RECURSIVE SumEntries(_, _)
SumEntries(entries, scores) ==
    IF scores = {} THEN 0
    ELSE LET t == CHOOSE x \in scores : TRUE
         IN  entries[t] + SumEntries(entries, scores \ {t})

\* an eviction that keeps the entry whose age is exactly the window
ZEvict_KeepsBoundary(c, key, window) ==
    IF key \in DOMAIN c.z
    THEN [t \in {x \in DOMAIN c.z[key] : x >= now - window} |-> c.z[key][t]]
    ELSE EmptyMap

\* ZREMRANGEBYSCORE key -inf (now - window): the entries still in the window
ZEvict(c, key, window) ==
    IF key \in DOMAIN c.z
    THEN [t \in {x \in DOMAIN c.z[key] : x > now - window} |-> c.z[key][t]]
    ELSE EmptyMap

\* a ZSET left without members is no key any more
ZStore(c, key, entries) ==
    [c EXCEPT !.z = [k \in (IF DOMAIN entries = {} THEN DOMAIN c.z \ {key}
                                                    ELSE DOMAIN c.z \cup {key}) |->
        IF k = key THEN entries ELSE c.z[k]]]

\* ZADD key now member(cost)
ZAdd(entries, cost) ==
    [t \in DOMAIN entries \cup {now} |->
        (IF t \in DOMAIN entries THEN entries[t] ELSE 0) + (IF t = now THEN cost ELSE 0)]

\* TRACK_COST_5H_ROLLING_WINDOW / TRACK_COST_DAILY_ROLLING_WINDOW: evict the
\* entries older than the window and add (now, cost), atomically
TRACK_COST_ROLLING_WINDOW(c, key, cost, window) ==
    ZStore(c, key, ZAdd(ZEvict(c, key, window), cost))

\* GET_COST_5H_ROLLING_WINDOW / GET_COST_DAILY_ROLLING_WINDOW: evict the
\* entries older than the window and return the sum of the rest, atomically
GET_COST_ROLLING_WINDOW(c, key, window) ==
    [cache |-> ZStore(c, key, ZEvict(c, key, window)),
     total |-> SumEntries(ZEvict(c, key, window), DOMAIN ZEvict(c, key, window))]

\* no rolling set of the cache sums to more than MaxCounter
CounterCap(z) ==
    \A k \in DOMAIN z : SumEntries(z[k], DOMAIN z[k]) <= MaxCounter

\* EXISTS key
RedisExists(c, key) == key \in DOMAIN c.s \/ key \in DOMAIN c.z

\* ------------------------------------------------------------------------
\* Cache keys (service.ts header: Redis key naming conventions)
\* ------------------------------------------------------------------------

\* String.prototype.replace(what, "") on the parts of a string: the first
\* occurrence is removed
RECURSIVE ReplaceFirst(_, _)
ReplaceFirst(parts, what) ==
    IF parts = <<>> THEN <<>>
    ELSE IF Head(parts) = what THEN Tail(parts)
    ELSE <<Head(parts)>> \o ReplaceFirst(Tail(parts), what)

\* a suffix that keeps the hour only
resolveDailyReset_HourOnly(resetTime) ==
    [normalized |-> normalizeResetTime(resetTime),
     suffix |-> Head(NormalizedParts(resetTime))]

\* resolveDailyReset: the normalized reset time and its key suffix (HH:mm -> HHmm)
resolveDailyReset(resetTime) ==
    [normalized |-> normalizeResetTime(resetTime),
     suffix |-> Join(ReplaceFirst(NormalizedParts(resetTime), ":"))]

CostKey(type, id, name) == type \o ":" \o ToString(id) \o ":cost_" \o name

Key5h(type, id) == CostKey(type, id, "5h_rolling")

KeyDailyRolling(type, id) == CostKey(type, id, "daily_rolling")

\* const periodKey = period === "daily" ? `${period}_${suffix}` : period
PeriodKey(period, resetTime) ==
    IF period = "daily" THEN "daily_" \o resolveDailyReset(resetTime).suffix ELSE period

KeyFixed(type, id, period, resetTime) == CostKey(type, id, PeriodKey(period, resetTime))

\* the key of the counter of one window: the 5h sorted set, the daily sorted
\* set under the rolling mode, the fixed accumulator otherwise
costKeyOf(type, id, period, resetTime, resetMode) ==
    IF period = "5h" THEN Key5h(type, id)
    ELSE IF period = "daily" /\ resetMode = "rolling" THEN KeyDailyRolling(type, id)
    ELSE KeyFixed(type, id, period, resetTime)

KeyUserDaily(userId) == "user:" \o ToString(userId) \o ":daily_cost"

\* ------------------------------------------------------------------------
\* trackCost
\* ------------------------------------------------------------------------

\* one scope's writes, with the daily cost written to the rolling set and to
\* the fixed accumulator alike
TrackScope_BothDaily(c, type, id, cost, resetTime, resetMode) ==
    LET reset == resolveDailyReset(resetTime)
        c1 == TRACK_COST_ROLLING_WINDOW(c, Key5h(type, id), cost, Window5h)
        c2 == TRACK_COST_ROLLING_WINDOW(c1, KeyDailyRolling(type, id), cost, Window24h)
        c3 == RedisIncrExpire(c2, CostKey(type, id, "daily_" \o reset.suffix), cost,
                  getTTLForPeriodWithMode("daily", reset.normalized, "fixed", now))
        c4 == RedisIncrExpire(c3, CostKey(type, id, "weekly"), cost,
                  getTTLForPeriodWithMode("weekly", "00:00", "fixed", now))
    IN  RedisIncrExpire(c4, CostKey(type, id, "monthly"), cost,
            getTTLForPeriodWithMode("monthly", "00:00", "fixed", now))

\* one scope's writes, with the fixed daily counter given the TTL of the
\* rolling daily window
TrackScope_DailyTtl24h(c, type, id, cost, resetTime, resetMode) ==
    LET reset == resolveDailyReset(resetTime)
        c1 == TRACK_COST_ROLLING_WINDOW(c, Key5h(type, id), cost, Window5h)
        c2 == IF resetMode = "rolling"
              THEN TRACK_COST_ROLLING_WINDOW(c1, KeyDailyRolling(type, id), cost, Window24h)
              ELSE c1
        c3 == IF resetMode = "fixed"
              THEN RedisIncrExpire(c2, CostKey(type, id, "daily_" \o reset.suffix), cost,
                       Window24h)
              ELSE c2
        c4 == RedisIncrExpire(c3, CostKey(type, id, "weekly"), cost,
                  getTTLForPeriodWithMode("weekly", "00:00", "fixed", now))
    IN  RedisIncrExpire(c4, CostKey(type, id, "monthly"), cost,
            getTTLForPeriodWithMode("monthly", "00:00", "fixed", now))

\* one scope's writes of trackCost: the 5h append, the daily write by reset
\* mode, the weekly and the monthly increment
TrackScope(c, type, id, cost, resetTime, resetMode) ==
    LET reset == resolveDailyReset(resetTime)
        c1 == TRACK_COST_ROLLING_WINDOW(c, Key5h(type, id), cost, Window5h)
        c2 == IF resetMode = "rolling"
              THEN TRACK_COST_ROLLING_WINDOW(c1, KeyDailyRolling(type, id), cost, Window24h)
              ELSE c1
        c3 == IF resetMode = "fixed"
              THEN RedisIncrExpire(c2, CostKey(type, id, "daily_" \o reset.suffix), cost,
                       getTTLForPeriodWithMode("daily", reset.normalized, resetMode, now))
              ELSE c2
        c4 == RedisIncrExpire(c3, CostKey(type, id, "weekly"), cost,
                  getTTLForPeriodWithMode("weekly", "00:00", "fixed", now))
    IN  RedisIncrExpire(c4, CostKey(type, id, "monthly"), cost,
            getTTLForPeriodWithMode("monthly", "00:00", "fixed", now))

\* how a call of trackCost ends: at its guard, in its catch block (the
\* rejected command is logged, nothing is thrown on), or after its writes
trackCostOutcome(cost) ==
    IF ~redisClient \/ cost <= 0 THEN "returned"
    ELSE IF ~redisCommandOk THEN "caught"
    ELSE "written"

\* trackCost with a guard that lets a zero cost through to the writes
trackCostWrites_ZeroWritten(c, keyId, providerId, cost, options) ==
    IF ~redisClient \/ cost < 0 THEN c
    ELSE IF ~redisCommandOk THEN c
    ELSE TrackScope(
             TrackScope(c, "key", keyId, cost, options.keyResetTime, options.keyResetMode),
             "provider", providerId, cost,
             options.providerResetTime, options.providerResetMode)

\* the cache after trackCost(keyId, providerId, sessionId, cost, options)
trackCostWrites(c, keyId, providerId, cost, options) ==
    IF ~redisClient \/ cost <= 0 THEN c
    ELSE IF ~redisCommandOk THEN c      \* the first eval rejects: caught, logged
    ELSE TrackScope(
             TrackScope(c, "key", keyId, cost, options.keyResetTime, options.keyResetMode),
             "provider", providerId, cost,
             options.providerResetTime, options.providerResetMode)

Cache == [s |-> strings, z |-> zsets]

TrackOptions ==
    [keyResetTime |-> dailyReset["key"].time, keyResetMode |-> dailyReset["key"].mode,
     providerResetTime |-> dailyReset["provider"].time,
     providerResetMode |-> dailyReset["provider"].mode]

NoCall == [op |-> "none"]

trackCost(keyId, providerId, cost) ==
    LET c == trackCostWrites(Cache, keyId, providerId, cost, TrackOptions)
    IN  /\ budget.track > 0
        /\ budget' = [budget EXCEPT !.track = @ - 1]
        /\ strings' = c.s
        /\ zsets' = c.z
        /\ tracked' = IF keyId = 1 /\ dailyReset["key"].mode = "fixed" /\ cost > 0
                      THEN [sum |-> tracked.sum + cost,
                            kept |-> tracked.kept /\ redisClient /\ redisCommandOk]
                      ELSE tracked
        /\ appended' = IF keyId = 1 /\ redisClient /\ redisCommandOk /\ cost > 0
                       THEN ZAdd(appended, cost)
                       ELSE appended
        /\ last' = [op |-> "trackCost", keyId |-> keyId, providerId |-> providerId,
                    cost |-> cost, outcome |-> trackCostOutcome(cost),
                    applied |-> redisClient /\ redisCommandOk /\ cost > 0]
        /\ UNCHANGED <<now, ledger, dbUp, dailyReset, redis, sessionVars, rpmVars, circuitVars, otherVars>>

\* the fixed daily counter of key 1
DailyCounter == KeyFixed("key", 1, "daily", dailyReset["key"].time)

\* the history after a read that leaves the cache strings s: the counter is
\* kept unless the read has overwritten it with another value
TrackedAfterRead(s) ==
    [tracked EXCEPT !.kept = @ /\ (DailyCounter \in DOMAIN strings
                                     => s[DailyCounter].val = strings[DailyCounter].val)]

\* ------------------------------------------------------------------------
\* checkCostLimits
\* ------------------------------------------------------------------------

\* a limit column that holds no number (number | null)
Null == -1

\* a guard that lets a ceiling of zero or less through to the comparison
IsUnlimited_NullOnly(amount) == amount = Null

\* if (!limit.amount || limit.amount <= 0) continue
IsUnlimited(amount) == amount = Null \/ amount <= 0

\* Number.prototype.toFixed(4) of an amount: the nearest multiple of 0.0001,
\* the larger one at a tie, in units of 0.0001
ToFixed4(amount) == (amount + 5) \div 10

\* the monthly limit examined before the others
costLimits_MonthlyFirst(limits) ==
    <<[amount |-> limits.limit_monthly_usd, period |-> "monthly", name |-> "monthly",
       resetTime |-> "undefined", resetMode |-> "undefined"],
      [amount |-> limits.limit_5h_usd, period |-> "5h", name |-> "5h",
       resetTime |-> "undefined", resetMode |-> "undefined"],
      [amount |-> limits.limit_daily_usd, period |-> "daily", name |-> "daily",
       resetTime |-> normalizeResetTime(limits.daily_reset_time),
       resetMode |-> limits.daily_reset_mode],
      [amount |-> limits.limit_weekly_usd, period |-> "weekly", name |-> "weekly",
       resetTime |-> "undefined", resetMode |-> "undefined"]>>

\* const costLimits: CostLimit[] of checkCostLimits
costLimits(limits) ==
    <<[amount |-> limits.limit_5h_usd, period |-> "5h", name |-> "5h",
       resetTime |-> "undefined", resetMode |-> "undefined"],
      [amount |-> limits.limit_daily_usd, period |-> "daily", name |-> "daily",
       resetTime |-> normalizeResetTime(limits.daily_reset_time),
       resetMode |-> limits.daily_reset_mode],
      [amount |-> limits.limit_weekly_usd, period |-> "weekly", name |-> "weekly",
       resetTime |-> "undefined", resetMode |-> "undefined"],
      [amount |-> limits.limit_monthly_usd, period |-> "monthly", name |-> "monthly",
       resetTime |-> "undefined", resetMode |-> "undefined"]>>

\* { allowed: true }
CostAllowed(source) ==
    [allowed |-> TRUE, error |-> FALSE, name |-> "", current |-> 0, shown |-> 0,
     limit |-> 0, source |-> source]

\* `>` in place of `>=`: a reached limit is not yet a breach
LimitReached_Exceeded(current, amount) == current > amount

\* if (current >= limit.amount)
LimitReached(current, amount) == current >= amount

\* { allowed: false, reason: `... ${limit.name} ...(${current.toFixed(4)}/${limit.amount})` }
CostDenied(limit, current, source) ==
    [allowed |-> FALSE, error |-> FALSE, name |-> limit.name, current |-> current,
     shown |-> ToFixed4(current), limit |-> limit.amount, source |-> source]

\* the durable store's error, thrown to the caller of the check
CostThrown ==
    [allowed |-> FALSE, error |-> TRUE, name |-> "", current |-> 0, shown |-> 0,
     limit |-> 0, source |-> "db"]

\* cache warming of one window with the ledger's sum: the rolling windows get
\* the sum as one entry stamped now (nothing for a sum of 0), the fixed
\* windows a SET with the TTL to the next reset
WarmCache(c, type, id, period, resetTime, resetMode, current) ==
    IF period = "5h"
    THEN IF current > 0
         THEN TRACK_COST_ROLLING_WINDOW(c, Key5h(type, id), current, Window5h)
         ELSE c
    ELSE IF period = "daily" /\ resetMode = "rolling"
    THEN IF current > 0
         THEN TRACK_COST_ROLLING_WINDOW(c, KeyDailyRolling(type, id), current, Window24h)
         ELSE c
    ELSE RedisSet(c, KeyFixed(type, id, period, resetTime), current,
             getTTLForPeriodWithMode(period, resolveDailyReset(resetTime).normalized,
                                     resetMode, now))

\* a check that lets the request pass without asking the durable store
checkCostLimitsFromDatabase_FailOpen(id, type, cl, i, c) ==
    [res |-> CostAllowed("db"), cache |-> c]

\* checkCostLimitsFromDatabase from the i-th limit on: [res, cache]
RECURSIVE checkCostLimitsFromDatabase(_, _, _, _, _)
checkCostLimitsFromDatabase(id, type, cl, i, c) ==
    IF i > Len(cl) THEN [res |-> CostAllowed("db"), cache |-> c]
    ELSE IF IsUnlimited(cl[i].amount) THEN checkCostLimitsFromDatabase(id, type, cl, i + 1, c)
    ELSE IF ~dbUp THEN [res |-> CostThrown, cache |-> c]
    ELSE LET range == getTimeRangeForPeriodWithMode(cl[i].period, cl[i].resetTime,
                                                    cl[i].resetMode, now)
             current == sumCostInTimeRange(type, id, range.startTime, range.endTime)
             warmed == IF redisStatusReady /\ redisCommandOk
                       THEN WarmCache(c, type, id, cl[i].period, cl[i].resetTime,
                                      cl[i].resetMode, current)
                       ELSE c      \* no warming, or the write rejects: caught, logged
         IN  IF LimitReached(current, cl[i].amount)
             THEN [res |-> CostDenied(cl[i], current, "db"), cache |-> warmed]
             ELSE checkCostLimitsFromDatabase(id, type, cl, i + 1, warmed)

\* const exists = await this.redis.exists(key); current === 0 && !exists
RollingMiss(got, key) == got.total = 0 /\ ~RedisExists(got.cache, key)

\* a counter with the value 0 is taken for a missing one
FixedMiss_ZeroIsMiss(c, key) == key \notin DOMAIN c.s \/ c.s[key].val = 0

\* const value = await this.redis.get(key); value === null
FixedMiss(c, key) == key \notin DOMAIN c.s

\* the fast path of checkCostLimits from the i-th limit on: [res, cache]. A
\* rejected cache command and a cache miss both end in the database path,
\* which starts over from the first limit; were the durable store to throw
\* there, the enclosing catch blocks would call it again and it would throw again.
RECURSIVE checkCostLimitsFast(_, _, _, _, _)
checkCostLimitsFast(id, type, cl, i, c) ==
    IF i > Len(cl) THEN [res |-> CostAllowed("cache"), cache |-> c]
    ELSE IF IsUnlimited(cl[i].amount) THEN checkCostLimitsFast(id, type, cl, i + 1, c)
    ELSE IF ~redisCommandOk THEN checkCostLimitsFromDatabase(id, type, cl, 1, c)
    ELSE IF cl[i].period = "5h" \/ (cl[i].period = "daily" /\ cl[i].resetMode = "rolling")
    THEN LET key == IF cl[i].period = "5h" THEN Key5h(type, id)
                                            ELSE KeyDailyRolling(type, id)
             got == GET_COST_ROLLING_WINDOW(c, key,
                        IF cl[i].period = "5h" THEN Window5h ELSE Window24h)
         IN  IF RollingMiss(got, key)
             THEN checkCostLimitsFromDatabase(id, type, cl, 1, got.cache)
             ELSE IF LimitReached(got.total, cl[i].amount)
             THEN [res |-> CostDenied(cl[i], got.total, "cache"), cache |-> got.cache]
             ELSE checkCostLimitsFast(id, type, cl, i + 1, got.cache)
    ELSE LET key == KeyFixed(type, id, cl[i].period, cl[i].resetTime)
         IN  IF FixedMiss(c, key)
             THEN checkCostLimitsFromDatabase(id, type, cl, 1, c)
             ELSE IF LimitReached(c.s[key].val, cl[i].amount)
             THEN [res |-> CostDenied(cl[i], c.s[key].val, "cache"), cache |-> c]
             ELSE checkCostLimitsFast(id, type, cl, i + 1, c)

\* checkCostLimits(id, type, limits) on cache c: [res, cache]
checkCostLimitsOn(id, type, limits, c) ==
    IF redisClient /\ redisStatusReady
    THEN checkCostLimitsFast(id, type, costLimits(limits), 1, c)
    ELSE checkCostLimitsFromDatabase(id, type, costLimits(limits), 1, c)

\* the limits a caller passes for an entity: its ceilings and its daily reset
LimitsOf(type, ceilings) ==
    [limit_5h_usd |-> ceilings[1], limit_daily_usd |-> ceilings[2],
     limit_weekly_usd |-> ceilings[3], limit_monthly_usd |-> ceilings[4],
     daily_reset_time |-> dailyReset[type].time,
     daily_reset_mode |-> dailyReset[type].mode]

checkCostLimits(id, type, ceilings) ==
    LET out == checkCostLimitsOn(id, type, LimitsOf(type, ceilings), Cache)
    IN  /\ CounterCap(out.cache.z)
        /\ strings' = out.cache.s
        /\ zsets' = out.cache.z
        /\ tracked' = TrackedAfterRead(out.cache.s)
        /\ UNCHANGED appended
        /\ last' = [op |-> "checkCostLimits", type |-> type, res |-> out.res]
        /\ UNCHANGED <<now, ledger, dbUp, dailyReset, budget, redis, sessionVars, rpmVars, circuitVars, otherVars>>

\* ------------------------------------------------------------------------
\* getCurrentCost
\* ------------------------------------------------------------------------

\* a slow path that lets the durable store's error through to the caller
getCurrentCostFromDatabase_Rethrows(id, type, period, resetTime, resetMode, c) ==
    IF ~dbUp THEN [value |-> 0, source |-> "thrown", cache |-> c]
    ELSE LET range == getTimeRangeForPeriodWithMode(period,
                          resolveDailyReset(resetTime).normalized, resetMode, now)
             current == sumCostInTimeRange(type, id, range.startTime, range.endTime)
         IN  [value |-> current, source |-> "db",
              cache |-> IF redisStatusReady /\ redisCommandOk
                        THEN WarmCache(c, type, id, period, resetTime, resetMode, current)
                        ELSE c]

\* the slow path of getCurrentCost: the ledger's sum, written back to the cache
getCurrentCostFromDatabase(id, type, period, resetTime, resetMode, c) ==
    IF ~dbUp THEN [value |-> 0, source |-> "caught", cache |-> c]
    ELSE LET range == getTimeRangeForPeriodWithMode(period,
                          resolveDailyReset(resetTime).normalized, resetMode, now)
             current == sumCostInTimeRange(type, id, range.startTime, range.endTime)
         IN  [value |-> current, source |-> "db",
              cache |-> IF redisStatusReady /\ redisCommandOk
                        THEN WarmCache(c, type, id, period, resetTime, resetMode, current)
                        ELSE c]

\* getCurrentCost(id, type, period, resetTime, resetMode) on cache c:
\* [value, source, cache]; a rejected cache command of the fast path is
\* caught by the outer catch, which returns 0
getCurrentCostOn(id, type, period, resetTime, resetMode, c) ==
    IF ~(redisClient /\ redisStatusReady)
    THEN getCurrentCostFromDatabase(id, type, period, resetTime, resetMode, c)
    ELSE IF ~redisCommandOk THEN [value |-> 0, source |-> "caught", cache |-> c]
    ELSE IF period = "5h" \/ (period = "daily" /\ resetMode = "rolling")
    THEN LET key == IF period = "5h" THEN Key5h(type, id) ELSE KeyDailyRolling(type, id)
             got == GET_COST_ROLLING_WINDOW(c, key,
                        IF period = "5h" THEN Window5h ELSE Window24h)
         IN  IF got.total > 0 THEN [value |-> got.total, source |-> "cache", cache |-> got.cache]
             ELSE IF RedisExists(got.cache, key)
             THEN [value |-> 0, source |-> "cache", cache |-> got.cache]
             ELSE getCurrentCostFromDatabase(id, type, period, resetTime, resetMode, got.cache)
    ELSE LET key == KeyFixed(type, id, period, resetTime)
         IN  IF key \in DOMAIN c.s
             THEN [value |-> c.s[key].val, source |-> "cache", cache |-> c]
             ELSE getCurrentCostFromDatabase(id, type, period, resetTime, resetMode, c)

getCurrentCost(id, type, period) ==
    LET out == getCurrentCostOn(id, type, period, dailyReset[type].time,
                                dailyReset[type].mode, Cache)
    IN  /\ CounterCap(out.cache.z)
        /\ strings' = out.cache.s
        /\ zsets' = out.cache.z
        /\ tracked' = TrackedAfterRead(out.cache.s)
        /\ UNCHANGED appended
        /\ last' = [op |-> "getCurrentCost", id |-> id, type |-> type, period |-> period,
                    value |-> out.value, source |-> out.source]
        /\ UNCHANGED <<now, ledger, dbUp, dailyReset, budget, redis, sessionVars, rpmVars, circuitVars, otherVars>>

\* ------------------------------------------------------------------------
\* checkUserDailyCost, trackUserDailyCost
\* ------------------------------------------------------------------------

\* checkUserDailyCost(userId, dailyLimitUsd) on cache c: [res, cache]; every
\* error inside its try block, of the cache or of the durable store, is
\* caught and answered { allowed: true }
checkUserDailyCostOn(userId, dailyLimitUsd, c) ==
    LET key == KeyUserDaily(userId)
        decide(currentCost, source, cache) ==
            [res |-> [allowed |-> ~LimitReached(currentCost, dailyLimitUsd),
                      error |-> FALSE, current |-> currentCost, source |-> source],
             cache |-> cache]
        caught == [res |-> [allowed |-> TRUE, error |-> FALSE, current |-> 0,
                            source |-> "caught"], cache |-> c]
    IN  IF IsUnlimited(dailyLimitUsd)
        THEN [res |-> [allowed |-> TRUE, error |-> FALSE, current |-> 0,
                       source |-> "unlimited"], cache |-> c]
        ELSE IF redisClient
        THEN IF ~redisCommandOk THEN caught
             ELSE IF key \in DOMAIN c.s THEN decide(c.s[key].val, "cache", c)
             ELSE IF ~dbUp THEN caught
             ELSE decide(sumUserCostToday(userId), "db",
                         RedisSet(c, key, sumUserCostToday(userId),
                                  getSecondsUntilMidnight(now)))
        ELSE IF ~dbUp THEN caught
        ELSE decide(sumUserCostToday(userId), "db", c)

checkUserDailyCost(userId, dailyLimitUsd) ==
    LET out == checkUserDailyCostOn(userId, dailyLimitUsd, Cache)
    IN  /\ strings' = out.cache.s
        /\ zsets' = out.cache.z
        /\ last' = [op |-> "checkUserDailyCost", userId |-> userId, res |-> out.res]
        /\ UNCHANGED <<now, ledger, dbUp, dailyReset, budget, tracked, appended, redis, sessionVars, rpmVars, circuitVars, otherVars>>

\* trackUserDailyCost(userId, cost)
trackUserDailyCost(userId, cost) ==
    /\ budget.track > 0
    /\ budget' = [budget EXCEPT !.track = @ - 1]
    /\ strings' = IF redisClient /\ cost > 0 /\ redisCommandOk
                  THEN RedisIncrExpire(Cache, KeyUserDaily(userId), cost,
                                       getSecondsUntilMidnight(now)).s
                  ELSE strings
    /\ last' = [op |-> "trackUserDailyCost", userId |-> userId, cost |-> cost]
    /\ UNCHANGED <<now, ledger, dbUp, zsets, dailyReset, tracked, appended, redis, sessionVars, rpmVars, circuitVars, otherVars>>

\* ------------------------------------------------------------------------
\* checkUserRPM: the sliding one-minute window of a user's requests
\* ------------------------------------------------------------------------

\* the window of the request-rate limiter and the TTL of its key, in seconds
RpmWindowSeconds == 60
RpmKeyTtl == 120

MaxRpmLimit == 2
MaxRpmCalls == 4

KeyRpm(userId) == "user:" \o ToString(userId) \o ":rpm_window"

\* ZREMRANGEBYSCORE key -inf max: the members with a score <= max are removed
ZRemRangeByScore_Exclusive(entries, max) ==
    [sc \in {x \in DOMAIN entries : x >= max} |-> entries[sc]]

ZRemRangeByScore(entries, max) ==
    [sc \in {x \in DOMAIN entries : x > max} |-> entries[sc]]

RECURSIVE ZCardOver(_, _)
ZCardOver(entries, scores) ==
    IF scores = {} THEN 0
    ELSE LET sc == CHOOSE x \in scores : TRUE
         IN  entries[sc] + ZCardOver(entries, scores \ {sc})

\* ZCARD key
ZCard(entries) == ZCardOver(entries, DOMAIN entries)

\* ZADD key score member, with a member no earlier call has used
ZAddMember(entries, score) ==
    IF score \in DOMAIN entries
    THEN [entries EXCEPT ![score] = @ + 1]
    ELSE [sc \in DOMAIN entries \cup {score} |->
             IF sc = score THEN 1 ELSE entries[sc]]

\* the members of a key, none if the key does not exist
RpmEntries(w, key) == IF key \in DOMAIN w THEN w[key].entries ELSE EmptyMap

\* a key after a write of its members: a sorted set without members is no key
RpmStore(w, key, entries, exp) ==
    IF DOMAIN entries = {}
    THEN [k \in DOMAIN w \ {key} |-> w[k]]
    ELSE [k \in DOMAIN w \cup {key} |->
             IF k = key THEN [entries |-> entries, exp |-> exp] ELSE w[k]]

\* a comparison that lets the count reach limit + 1
RpmLimitReached_Exceeded(count, limit) == count > limit

\* if (count >= rpmLimit)
RpmLimitReached(count, limit) == count >= limit

RpmAllowed(current, via) == [allowed |-> TRUE, current |-> current, via |-> via]
RpmDenied(count) == [allowed |-> FALSE, current |-> count, via |-> "cache"]

\* checkUserRPM(userId, rpmLimit) on the cache keys w at Date.now() = t:
\* the result and the cache keys it leaves
checkUserRPMOn(userId, limit, w, t) ==
    IF IsUnlimited(limit) THEN [res |-> RpmAllowed(Null, "unlimited"), w |-> w]
    ELSE IF ~redisClient THEN [res |-> RpmAllowed(Null, "noclient"), w |-> w]
    ELSE IF ~redisCommandOk THEN [res |-> RpmAllowed(Null, "caught"), w |-> w]
    ELSE LET key == KeyRpm(userId)
             oneMinuteAgo == t - RpmWindowSeconds
             kept == ZRemRangeByScore(RpmEntries(w, key), oneMinuteAgo)
             exp == IF key \in DOMAIN w THEN w[key].exp ELSE 0
             count == ZCard(kept)
         IN  IF RpmLimitReached(count, limit)
             THEN [res |-> RpmDenied(count), w |-> RpmStore(w, key, kept, exp)]
             ELSE [res |-> RpmAllowed(count + 1, "cache"),
                   w |-> RpmStore(w, key, ZAddMember(kept, t), t + RpmKeyTtl)]

NoRpmCalls == [first |-> Null, n |-> 0, admitted |-> EmptyMap, clean |-> TRUE]

checkUserRPM(userId, limit) ==
    LET r == checkUserRPMOn(userId, limit, rpmWindow, clock)
    IN  /\ rpmSeen.n < MaxRpmCalls
        /\ rpmWindow' = r.w
        /\ rpmSeen' = [first |-> IF rpmSeen.first = Null THEN clock ELSE rpmSeen.first,
                       n |-> rpmSeen.n + 1,
                       admitted |-> IF r.res.allowed
                                    THEN ZAddMember(rpmSeen.admitted, clock)
                                    ELSE rpmSeen.admitted,
                       clean |-> rpmSeen.clean /\ r.res.via = "cache"]
        /\ last' = [op |-> "checkUserRPM", userId |-> userId, limit |-> limit,
                    res |-> r.res]
        /\ UNCHANGED <<clock, rpmLimit, redis, sessionVars, circuitVars, otherVars>>
        /\ UNCHANGED <<now, ledger, dbUp, strings, zsets, dailyReset, budget, tracked, appended>>

\* the clock of the request-rate limiter advances; a key whose TTL has run
\* out is gone
RpmTick(t) ==
    /\ t > clock
    /\ clock' = t
    /\ rpmWindow' = [k \in {x \in DOMAIN rpmWindow : rpmWindow[x].exp > t} |-> rpmWindow[k]]
    /\ last' = NoCall
    /\ UNCHANGED <<rpmLimit, rpmSeen, redis, sessionVars, circuitVars, otherVars>>
    /\ UNCHANGED <<now, ledger, dbUp, strings, zsets, dailyReset, budget, tracked, appended>>

RpmRedisChange(s) ==
    /\ RedisChange(s)
    /\ last' = NoCall
    /\ UNCHANGED <<sessionVars, rpmVars, circuitVars, otherVars>>
    /\ UNCHANGED <<now, ledger, dbUp, strings, zsets, dailyReset, budget, tracked, appended>>

\* checkUserRPM as its callers interleave: the handler awaits the pipeline
\* that evicts and counts, and then the pipeline that inserts

IdleRpmCall == [pc |-> "idle", now |-> Null, count |-> Null, res |-> [via |-> "none"]]

\* a first pipeline that records the request before it is counted
rpmCountPipeline_Records(userId, w, t) ==
    LET key == KeyRpm(userId)
        kept == ZRemRangeByScore(RpmEntries(w, key), t - RpmWindowSeconds)
    IN  [count |-> ZCard(kept), w |-> RpmStore(w, key, ZAddMember(kept, t), t + RpmKeyTtl)]

\* pipeline.zremrangebyscore(key, "-inf", oneMinuteAgo); pipeline.zcard(key)
rpmCountPipeline(userId, w, t) ==
    LET key == KeyRpm(userId)
        kept == ZRemRangeByScore(RpmEntries(w, key), t - RpmWindowSeconds)
        exp == IF key \in DOMAIN w THEN w[key].exp ELSE 0
    IN  [count |-> ZCard(kept), w |-> RpmStore(w, key, kept, exp)]

\* pipeline().zadd(key, now, member).expire(key, 120), executed at instant at
rpmRecordPipeline(userId, w, t, at) ==
    RpmStore(w, KeyRpm(userId), ZAddMember(RpmEntries(w, KeyRpm(userId)), t), at + RpmKeyTtl)

RpmDone(rc, res) == [rc EXCEPT !.pc = "done", !.res = res]

\* caller c, not inside a call, enters checkUserRPM: the guards, Date.now(),
\* the first pipeline and the comparison with the limit
checkUserRPM_count(c, userId, limit) ==
    LET r == rpmCountPipeline(userId, rpmWindow, clock)
    IN  /\ rpmCall[c].pc \in {"idle", "done"}
        /\ rpmSeen.n < MaxRpmCalls
        /\ rpmSeen' = [rpmSeen EXCEPT
              !.first = IF @ = Null THEN clock ELSE @,
              !.n = @ + 1,
              !.clean = @ /\ ~IsUnlimited(limit) /\ redisCommandOk]
        /\ IF IsUnlimited(limit)
           THEN /\ rpmCall' = [rpmCall EXCEPT ![c] = RpmDone(@, RpmAllowed(Null, "unlimited"))]
                /\ UNCHANGED <<rpmWindow, overlapped>>
           ELSE IF ~redisClient
           THEN /\ rpmCall' = [rpmCall EXCEPT ![c] = RpmDone(@, RpmAllowed(Null, "noclient"))]
                /\ UNCHANGED <<rpmWindow, overlapped>>
           ELSE IF ~redisCommandOk
           THEN /\ rpmCall' = [rpmCall EXCEPT ![c] = RpmDone(@, RpmAllowed(Null, "caught"))]
                /\ UNCHANGED <<rpmWindow, overlapped>>
           ELSE /\ rpmWindow' = r.w
                /\ rpmCall' = [rpmCall EXCEPT ![c] =
                      IF RpmLimitReached(r.count, limit)
                      THEN [pc |-> "done", now |-> clock, count |-> r.count,
                            res |-> RpmDenied(r.count)]
                      ELSE [pc |-> "counted", now |-> clock, count |-> r.count,
                            res |-> [via |-> "none"]]]
                /\ overlapped' =
                      (overlapped \/ \E d \in Callers \ {c} : rpmCall[d].pc = "counted")
        /\ last' = NoCall
        /\ UNCHANGED <<clock, rpmLimit, selectorVars, detectorVars, adminVars, redis, sessionVars, circuitVars>>
        /\ UNCHANGED <<now, ledger, dbUp, strings, zsets, dailyReset, budget, tracked, appended>>

\* caller c, under the limit, records its request and returns
checkUserRPM_record(c, userId) ==
    /\ rpmCall[c].pc = "counted"
    /\ IF ~redisCommandOk
       THEN /\ rpmCall' = [rpmCall EXCEPT ![c] = RpmDone(@, RpmAllowed(Null, "caught"))]
            /\ rpmSeen' = [rpmSeen EXCEPT !.clean = FALSE]
            /\ UNCHANGED rpmWindow
       ELSE /\ rpmWindow' = rpmRecordPipeline(userId, rpmWindow, rpmCall[c].now, clock)
            /\ rpmCall' = [rpmCall EXCEPT ![c] =
                              RpmDone(@, RpmAllowed(rpmCall[c].count + 1, "cache"))]
            /\ rpmSeen' = [rpmSeen EXCEPT !.admitted = ZAddMember(@, rpmCall[c].now)]
    /\ last' = NoCall
    /\ UNCHANGED <<clock, rpmLimit, overlapped, selectorVars, detectorVars, adminVars, redis, sessionVars, circuitVars>>
    /\ UNCHANGED <<now, ledger, dbUp, strings, zsets, dailyReset, budget, tracked, appended>>

\* ------------------------------------------------------------------------
\* The session of a server action's caller (src/lib/auth)
\* ------------------------------------------------------------------------

NoSession == [signedIn |-> FALSE, role |-> "none"]
UserSession == [signedIn |-> TRUE, role |-> "user"]
AdminSession == [signedIn |-> TRUE, role |-> "admin"]
Sessions == {NoSession, UserSession, AdminSession}

\* a guard that lets every signed-in caller through
IsAdmin_SignedIn(s) == s.signedIn

\* the negation of: !session || session.user.role !== "admin"
IsAdmin(s) == s.signedIn /\ s.role = "admin"

NoPermission == [ok |-> FALSE, error |-> "no permission"]

\* ------------------------------------------------------------------------
\* Circuit breaker (src/lib/circuit-breaker.ts), per provider
\* ------------------------------------------------------------------------

MaxFailureThreshold == 3
MaxFailures == 4

\* the configuration createProvider stores when none is given: 5 failures,
\* 1800000 ms (in seconds here), 2 successes
DefaultFailureThreshold == 5
DefaultOpenDuration == 1800
DefaultHalfOpenSuccessThreshold == 2

DefaultCircuitConfig ==
    [failureThreshold |-> DefaultFailureThreshold,
     openDuration |-> DefaultOpenDuration,
     halfOpenSuccessThreshold |-> DefaultHalfOpenSuccessThreshold]

\* a circuit on its first observation, and after a manual reset
ClosedCircuit ==
    [state |-> "closed", consecutiveFailures |-> 0,
     consecutiveHalfOpenSuccesses |-> 0, openedAt |-> Null]

\* a failure that reopens a half-open circuit without restarting its timer
recordFailureOn_KeepsTimer(h, config, t) ==
    LET failures == h.consecutiveFailures + 1
    IN  IF h.state = "closed"
        THEN IF failures >= config.failureThreshold
             THEN [state |-> "open", consecutiveFailures |-> failures,
                   consecutiveHalfOpenSuccesses |-> 0, openedAt |-> t]
             ELSE [h EXCEPT !.consecutiveFailures = failures]
        ELSE IF h.state = "half_open"
        THEN [h EXCEPT !.state = "open", !.consecutiveFailures = failures,
                       !.consecutiveHalfOpenSuccesses = 0]
        ELSE [h EXCEPT !.consecutiveFailures = failures]

\* recordOutcome(providerId, success = false) on circuit h at instant t:
\* closed opens at the threshold, half-open reopens with the timer reset,
\* the failure counter counts on
recordFailureOn(h, config, t) ==
    LET failures == h.consecutiveFailures + 1
    IN  IF h.state = "closed"
        THEN IF failures >= config.failureThreshold
             THEN [state |-> "open", consecutiveFailures |-> failures,
                   consecutiveHalfOpenSuccesses |-> 0, openedAt |-> t]
             ELSE [h EXCEPT !.consecutiveFailures = failures]
        ELSE IF h.state = "half_open"
        THEN [state |-> "open", consecutiveFailures |-> failures,
              consecutiveHalfOpenSuccesses |-> 0, openedAt |-> t]
        ELSE [h EXCEPT !.consecutiveFailures = failures]

\* a success that leaves the failure counter of a closed circuit as it is
recordSuccessOn_KeepsCount(h, config) ==
    IF h.state = "half_open"
    THEN IF h.consecutiveHalfOpenSuccesses + 1 >= config.halfOpenSuccessThreshold
         THEN ClosedCircuit
         ELSE [h EXCEPT !.consecutiveHalfOpenSuccesses = @ + 1]
    ELSE h

\* recordOutcome(providerId, success = true) on circuit h: closed resets
\* the failure counter, half-open closes at the success threshold with all
\* counters zeroed
recordSuccessOn(h, config) ==
    IF h.state = "closed" THEN [h EXCEPT !.consecutiveFailures = 0]
    ELSE IF h.state = "half_open"
    THEN IF h.consecutiveHalfOpenSuccesses + 1 >= config.halfOpenSuccessThreshold
         THEN ClosedCircuit
         ELSE [h EXCEPT !.consecutiveHalfOpenSuccesses = @ + 1]
    ELSE h

\* isAvailable(providerId) at instant t: true for closed and half-open; an
\* open circuit whose open duration has elapsed turns half-open and is
\* available, otherwise it is not
isAvailableOn(h, config, t) ==
    IF h.state # "open" THEN [available |-> TRUE, circuit |-> h]
    ELSE IF t - h.openedAt >= config.openDuration
    THEN [available |-> TRUE,
          circuit |-> [h EXCEPT !.state = "half_open", !.consecutiveHalfOpenSuccesses = 0]]
    ELSE [available |-> FALSE, circuit |-> h]

recordFailure(providerId) ==
    /\ circuit.consecutiveFailures < MaxFailures
    /\ circuit' = recordFailureOn(circuit, circuitConfig, clock)
    /\ streak' = streak + 1
    /\ trial' = 0
    /\ last' = [op |-> "recordFailure", providerId |-> providerId]
    /\ UNCHANGED <<circuitConfig, otherVars, redis, sessionVars, rpmVars>>
    /\ UNCHANGED <<now, ledger, dbUp, strings, zsets, dailyReset, budget, tracked, appended>>

recordSuccess(providerId) ==
    /\ circuit' = recordSuccessOn(circuit, circuitConfig)
    /\ streak' = 0
    /\ trial' = IF circuit.state = "half_open" THEN trial + 1 ELSE 0
    /\ last' = [op |-> "recordSuccess", providerId |-> providerId]
    /\ UNCHANGED <<circuitConfig, otherVars, redis, sessionVars, rpmVars>>
    /\ UNCHANGED <<now, ledger, dbUp, strings, zsets, dailyReset, budget, tracked, appended>>

isAvailable(providerId) ==
    /\ circuit' = isAvailableOn(circuit, circuitConfig, clock).circuit
    /\ last' = [op |-> "isAvailable", providerId |-> providerId,
                available |-> isAvailableOn(circuit, circuitConfig, clock).available]
    /\ trial' = IF circuit'.state = circuit.state THEN trial ELSE 0
    /\ UNCHANGED <<circuitConfig, otherVars, streak, redis, sessionVars, rpmVars>>
    /\ UNCHANGED <<now, ledger, dbUp, strings, zsets, dailyReset, budget, tracked, appended>>

\* resetProviderCircuit(providerId): the manual reset, for administrators
resetProviderCircuit(providerId) ==
    /\ IF IsAdmin(session)
       THEN /\ circuit' = ClosedCircuit
            /\ streak' = 0
            /\ trial' = 0
            /\ last' = [op |-> "resetProviderCircuit", providerId |-> providerId,
                        res |-> [ok |-> TRUE]]
       ELSE /\ UNCHANGED <<circuit, streak, trial>>
            /\ last' = [op |-> "resetProviderCircuit", providerId |-> providerId,
                        res |-> NoPermission]
    /\ UNCHANGED <<circuitConfig, otherVars, redis, sessionVars, rpmVars>>
    /\ UNCHANGED <<now, ledger, dbUp, strings, zsets, dailyReset, budget, tracked, appended>>

\* the clock of the circuit breaker advances
CircuitTick(t) ==
    /\ t > clock
    /\ clock' = t
    /\ last' = NoCall
    /\ UNCHANGED <<rpmLimit, rpmWindow, rpmSeen, redis, sessionVars, circuitVars, otherVars>>
    /\ UNCHANGED <<now, ledger, dbUp, strings, zsets, dailyReset, budget, tracked, appended>>

\* ------------------------------------------------------------------------
\* Provider selector / failover loop (ProxyProviderResolver)
\* ------------------------------------------------------------------------

\* the forwarding attempts of one request: the failover loop's maximum
MaxAttempts == 3

\* the providers of the deployment
Providers == {1, 2, 3, 4}

\* what a candidate's checks answer: it passes them, its circuit breaker
\* reports it unavailable, its cost limiter rejects, or the claim of a
\* concurrency slot fails
Unavailable == {"circuit-open", "rate-limited", "concurrency-exceeded"}
Health == {"ok"} \cup Unavailable

\* the priority of a provider: 1 and 2 are preferred to 3 and 4
Priority(p) == IF p <= 2 THEN 1 ELSE 0

NoPool == [candidates |-> {}, health |-> [p \in Providers |-> "ok"], affinity |-> Null]

\* no provider chosen, none attempted or filtered yet
IdleSelection ==
    [pc |-> "select", current |-> Null, attempted |-> <<>>, failed |-> {},
     filtered |-> EmptyMap, outcome |-> [kind |-> "none"]]

Attempted(sel) == {sel.attempted[i] : i \in 1..Len(sel.attempted)}

\* the candidates left that include the ones already forwarded to
Remaining_KeepsTried(sel) == pool.candidates \ DOMAIN sel.filtered

\* the candidates neither forwarded to nor filtered out in this request
Remaining(sel) == pool.candidates \ (Attempted(sel) \cup DOMAIN sel.filtered)

\* the candidates examined next: the provider of the session's affinity on
\* the first pass while it is available, otherwise the remaining ones of
\* the highest priority (the weights draw one of them)
NextCandidates(sel) ==
    IF /\ sel.attempted = <<>>
       /\ pool.affinity \in Remaining(sel)
       /\ pool.health[pool.affinity] = "ok"
    THEN {pool.affinity}
    ELSE {c \in Remaining(sel) : \A d \in Remaining(sel) : Priority(d) <= Priority(c)}

success(providerId, attemptCount) ==
    [kind |-> "success", providerId |-> providerId, attemptCount |-> attemptCount]

exhausted(filteredProviders) ==
    [kind |-> "exhausted", filteredProviders |-> filteredProviders]

\* steps 3 and 4 on candidate c: a candidate failing a check is filtered
\* out with the reason, the first surviving one is forwarded to
selectProvider_filter(c) ==
    /\ selection.pc = "select"
    /\ c \in NextCandidates(selection)
    /\ selection' =
          IF pool.health[c] = "ok"
          THEN [selection EXCEPT !.pc = "forward", !.current = c,
                                 !.attempted = Append(@, c)]
          ELSE [selection EXCEPT
                  !.filtered = [p \in DOMAIN @ \cup {c} |->
                                    IF p = c THEN pool.health[c] ELSE @[p]]]
    /\ last' = NoCall
    /\ UNCHANGED <<pool, raceVars, detectorVars, adminVars, redis, sessionVars, rpmVars, circuitVars>>
    /\ UNCHANGED <<now, ledger, dbUp, strings, zsets, dailyReset, budget, tracked, appended>>

\* step 6: no candidate remains
selectProvider_exhausted ==
    /\ selection.pc = "select"
    /\ Remaining(selection) = {}
    /\ selection' = [selection EXCEPT !.pc = "done", !.current = Null,
                                      !.outcome = exhausted(selection.filtered)]
    /\ last' = NoCall
    /\ UNCHANGED <<pool, raceVars, detectorVars, adminVars, redis, sessionVars, rpmVars, circuitVars>>
    /\ UNCHANGED <<now, ledger, dbUp, strings, zsets, dailyReset, budget, tracked, appended>>

\* step 5: the forwarding collaborator reports the outcome of the attempt;
\* after a failure the loop goes on unless the attempts are used up
selectProvider_forward(ok) ==
    /\ selection.pc = "forward"
    /\ selection' =
          IF ok
          THEN [selection EXCEPT
                  !.pc = "done",
                  !.outcome = success(selection.current, Len(selection.attempted))]
          ELSE IF Len(selection.attempted) >= MaxAttempts
          THEN [selection EXCEPT !.pc = "done", !.current = Null,
                                 !.failed = @ \cup {selection.current},
                                 !.outcome = exhausted(selection.filtered)]
          ELSE [selection EXCEPT !.pc = "select", !.current = Null,
                                 !.failed = @ \cup {selection.current}]
    /\ last' = NoCall
    /\ UNCHANGED <<pool, raceVars, detectorVars, adminVars, redis, sessionVars, rpmVars, circuitVars>>
    /\ UNCHANGED <<now, ledger, dbUp, strings, zsets, dailyReset, budget, tracked, appended>>

\* ------------------------------------------------------------------------
\* Error rules (src/repository/error-rules.ts) and their detector
\* (src/lib/error-rule-detector.ts)
\* ------------------------------------------------------------------------

ErrorRule(id, pattern, matchType, category, priority, isEnabled) ==
    [id |-> id, pattern |-> pattern, matchType |-> matchType, category |-> category,
     priority |-> priority, isEnabled |-> isEnabled]

\* two of the default rules initializeDefaultErrorRules inserts
defaultRules ==
    <<ErrorRule(1, "illegal request|invalid request", "regex", "invalid_request", 50, TRUE),
      ErrorRule(2, "cache_control.*limit.*blocks", "regex", "cache_limit", 40, TRUE)>>

\* rules an administrator has created: a contains and an exact rule in mixed
\* case, a regex that safe-regex rejects, a disabled rule, and a rule with
\* the pattern of a default one
CustomRules ==
    {ErrorRule(11, "Quota Exceeded", "contains", "quota", 10, TRUE),
     ErrorRule(12, "Invalid API Key", "exact", "auth", 20, TRUE),
     ErrorRule(13, "(a+)+$", "regex", "custom", 30, TRUE),
     ErrorRule(14, "Overloaded", "contains", "capacity", 5, FALSE),
     ErrorRule(15, "cache_control.*limit.*blocks", "contains", "custom", 60, TRUE)}

\* before the migration the table does not exist
NoErrorRules == [exists |-> FALSE, rows |-> {}]

\* String.prototype.toLowerCase on the patterns of the rules
toLowerCase(text) ==
    CASE text = "Quota Exceeded" -> "quota exceeded"
      [] text = "Invalid API Key" -> "invalid api key"
      [] text = "Overloaded" -> "overloaded"
      [] OTHER -> text

\* safe-regex: the pattern has no nested quantifier
safeRegex(pattern) == pattern # "(a+)+$"

\* orderBy: [errorRules.priority, ...] over the rules in rows
RECURSIVE OrderByPriority(_)
OrderByPriority(rows) ==
    IF rows = {} THEN <<>>
    ELSE LET first == CHOOSE r \in rows : \A q \in rows : r.priority <= q.priority
         IN  <<first>> \o OrderByPriority(rows \ {first})

\* getActiveErrorRules(): the enabled rules, by priority
getActiveErrorRules(table) == OrderByPriority({r \in table.rows : r.isEnabled})

\* the caches of a detector that holds no rule
NoCaches == [regexPatterns |-> <<>>, containsPatterns |-> <<>>, exactPatterns |-> EmptyMap]

\* the detector as its field initialisers leave it
NewDetector ==
    [regexPatterns |-> <<>>, containsPatterns |-> <<>>, exactPatterns |-> EmptyMap,
     lastReloadTime |-> 0, isLoading |-> FALSE]

NoReload == [pc |-> "idle", rules |-> <<>>, before |-> NoCaches]

Caches(d) ==
    [regexPatterns |-> d.regexPatterns, containsPatterns |-> d.containsPatterns,
     exactPatterns |-> d.exactPatterns]

\* the switch of reload() on one rule
LoadRule(caches, rule) ==
    CASE rule.matchType = "contains" ->
           [caches EXCEPT !.containsPatterns =
               Append(@, [text |-> toLowerCase(rule.pattern), category |-> rule.category])]
      [] rule.matchType = "exact" ->
           [caches EXCEPT !.exactPatterns =
               [t \in DOMAIN @ \cup {toLowerCase(rule.pattern)} |->
                   IF t = toLowerCase(rule.pattern)
                   THEN [text |-> toLowerCase(rule.pattern), category |-> rule.category]
                   ELSE @[t]]]
      [] rule.matchType = "regex" /\ safeRegex(rule.pattern) ->
           [caches EXCEPT !.regexPatterns =
               Append(@, [pattern |-> rule.pattern, category |-> rule.category])]
      [] OTHER -> caches

\* the loop of reload() over the rules read
RECURSIVE LoadRules(_, _)
LoadRules(caches, rules) ==
    IF rules = <<>> THEN caches
    ELSE LoadRules(LoadRule(caches, Head(rules)), Tail(rules))

\* reload() up to its first await, with the old caches cleared at once
reloadEnter_ClearsFirst(d, r) ==
    IF d.isLoading THEN [detector |-> d, reloading |-> r]
    ELSE [detector |-> [d EXCEPT !.isLoading = TRUE, !.regexPatterns = <<>>,
                                 !.containsPatterns = <<>>, !.exactPatterns = EmptyMap],
          reloading |-> [pc |-> "querying", rules |-> <<>>, before |-> Caches(d)]]

\* reload() up to its first await: skipped while another reload is in
\* progress, otherwise isLoading is set and the query is sent
reloadEnter(d, r) ==
    IF d.isLoading THEN [detector |-> d, reloading |-> r]
    ELSE [detector |-> [d EXCEPT !.isLoading = TRUE],
          reloading |-> [pc |-> "querying", rules |-> <<>>, before |-> Caches(d)]]

\* reload() after the query has answered with rules: the caches are
\* cleared and filled, the guard is released
reloadLoaded(d, rules, t) ==
    LET caches == LoadRules(NoCaches, rules)
    IN  [regexPatterns |-> caches.regexPatterns,
         containsPatterns |-> caches.containsPatterns,
         exactPatterns |-> caches.exactPatterns,
         lastReloadTime |-> t, isLoading |-> FALSE]

\* reload() after the query has failed: "relation ... does not exist" is
\* answered by an early return, any other error by the outer catch; the
\* finally block releases the guard
reloadFailed(d, tableMissing, t) ==
    IF tableMissing
    THEN [d EXCEPT !.lastReloadTime = t, !.isLoading = FALSE]
    ELSE [d EXCEPT !.isLoading = FALSE]

\* errorRuleDetector.reload() is called (hot reload)
reload ==
    /\ detector' = reloadEnter(detector, reloading).detector
    /\ reloading' = reloadEnter(detector, reloading).reloading
    /\ last' = [op |-> "reload", skipped |-> detector.isLoading]
    /\ UNCHANGED <<errorRules, selectorVars, raceVars, adminVars, redis, sessionVars, rpmVars, circuitVars>>
    /\ UNCHANGED <<now, ledger, dbUp, strings, zsets, dailyReset, budget, tracked, appended>>

\* the durable store answers the query of the reload in progress
getActiveErrorRules_answer ==
    /\ reloading.pc = "querying"
    /\ IF dbUp /\ errorRules.exists
       THEN /\ reloading' = [reloading EXCEPT !.pc = "fetched",
                                              !.rules = getActiveErrorRules(errorRules)]
            /\ UNCHANGED detector
       ELSE /\ reloading' = [reloading EXCEPT !.pc = "failed"]
            /\ detector' = reloadFailed(detector, dbUp /\ ~errorRules.exists, clock)
    /\ last' = NoCall
    /\ UNCHANGED <<errorRules, selectorVars, raceVars, adminVars, redis, sessionVars, rpmVars, circuitVars>>
    /\ UNCHANGED <<now, ledger, dbUp, strings, zsets, dailyReset, budget, tracked, appended>>

\* the reload in progress resumes with the rules read
reload_resume ==
    /\ reloading.pc = "fetched"
    /\ detector' = reloadLoaded(detector, reloading.rules, clock)
    /\ reloading' = [reloading EXCEPT !.pc = "loaded"]
    /\ last' = NoCall
    /\ UNCHANGED <<errorRules, selectorVars, raceVars, adminVars, redis, sessionVars, rpmVars, circuitVars>>
    /\ UNCHANGED <<now, ledger, dbUp, strings, zsets, dailyReset, budget, tracked, appended>>

\* the rows after the insert of the default rules, ON CONFLICT (pattern) DO
\* NOTHING
InsertDefaults(rows) ==
    rows \cup {defaultRules[i] : i \in {j \in 1..Len(defaultRules) :
                    \A r \in rows : r.pattern # defaultRules[j].pattern}}

\* initializeDefaultErrorRules(): the transaction, then the event, whose
\* listener calls reload()
initializeDefaultErrorRules ==
    /\ dbUp /\ errorRules.exists
    /\ errorRules' = [errorRules EXCEPT !.rows = InsertDefaults(@)]
    /\ detector' = reloadEnter(detector, reloading).detector
    /\ reloading' = reloadEnter(detector, reloading).reloading
    /\ last' = [op |-> "initializeDefaultErrorRules", skipped |-> detector.isLoading]
    /\ UNCHANGED <<selectorVars, raceVars, adminVars, redis, sessionVars, rpmVars, circuitVars>>
    /\ UNCHANGED <<now, ledger, dbUp, strings, zsets, dailyReset, budget, tracked, appended>>

\* the migration creates the error_rules table
migrate ==
    /\ ~errorRules.exists
    /\ errorRules' = [exists |-> TRUE, rows |-> {}]
    /\ last' = NoCall
    /\ UNCHANGED <<detector, reloading, selectorVars, raceVars, adminVars, redis, sessionVars, rpmVars, circuitVars>>
    /\ UNCHANGED <<now, ledger, dbUp, strings, zsets, dailyReset, budget, tracked, appended>>

\* ------------------------------------------------------------------------
\* Provider administration (src/actions/providers.ts and its repository)
\* ------------------------------------------------------------------------

MaxProviders == 2

ProviderKeys == {"sk-a", "sk-b"}

\* what the dashboard submits: the key, an optional failure threshold of the
\* circuit breaker, and a proxy URL that is well-formed or not
ProviderData ==
    [key : ProviderKeys, failureThreshold : {Null, 2}, proxyOk : BOOLEAN]

\* the ids a caller may name: the rows there can be, and one there never is
ProviderIds == 1..(MaxProviders + 1)

\* createProvider(payload): the row of a serial id, not deleted
createProvider(rows, id, data) ==
    [i \in (DOMAIN rows) \cup {id} |->
        IF i = id
        THEN [key |-> data.key,
              failureThreshold |->
                  IF data.failureThreshold = Null THEN DefaultFailureThreshold
                  ELSE data.failureThreshold,
              deleted |-> FALSE]
        ELSE rows[i]]

\* findProviderById(id): a row that is there and not soft-deleted
findProviderById(rows, id) == id \in DOMAIN rows /\ ~rows[id].deleted

\* updateProvider(id, payload): the fields given replace the row's
updateProvider(rows, id, data) ==
    [rows EXCEPT ![id] =
        [@ EXCEPT !.key = data.key,
                  !.failureThreshold =
                      IF data.failureThreshold = Null THEN @
                      ELSE data.failureThreshold]]

\* deleteProvider(id): deletedAt is set on a row that is there and live
deleteProvider(rows, id) ==
    IF findProviderById(rows, id)
    THEN [rows EXCEPT ![id] = [@ EXCEPT !.deleted = TRUE]]
    ELSE rows

\* saveProviderCircuitConfig(id, config), a command of the cache tier
saveProviderCircuitConfig(saved, id, threshold) ==
    [i \in (DOMAIN saved) \cup {id} |-> IF i = id THEN threshold ELSE saved[i]]

\* deleteProviderCircuitConfig(id)
deleteProviderCircuitConfig(saved, id) ==
    [i \in (DOMAIN saved) \ {id} |-> saved[i]]

\* addProvider(data)
addProvider(data) ==
    /\ Cardinality(DOMAIN providerRows) < MaxProviders
    /\ LET id == Cardinality(DOMAIN providerRows) + 1
           rows == createProvider(providerRows, id, data)
       IN  IF ~IsAdmin(session)
           THEN /\ last' = [op |-> "addProvider", providerId |-> id,
                            res |-> NoPermission]
                /\ UNCHANGED <<providerRows, circuitConfigs>>
           ELSE IF ~data.proxyOk
           THEN /\ last' = [op |-> "addProvider", providerId |-> id,
                            res |-> [ok |-> FALSE, error |-> "proxy url"]]
                /\ UNCHANGED <<providerRows, circuitConfigs>>
           ELSE IF ~dbUp
           THEN /\ last' = [op |-> "addProvider", providerId |-> id,
                            res |-> [ok |-> FALSE, error |-> "failed"]]
                /\ UNCHANGED <<providerRows, circuitConfigs>>
           ELSE /\ providerRows' = rows
                /\ circuitConfigs' =
                       IF redisCommandOk
                       THEN saveProviderCircuitConfig(circuitConfigs, id,
                                rows[id].failureThreshold)
                       ELSE circuitConfigs
                /\ last' = [op |-> "addProvider", providerId |-> id,
                            res |-> [ok |-> TRUE]]
    /\ UNCHANGED <<session, circuitVars, selectorVars, raceVars, detectorVars>>
    /\ UNCHANGED <<redis, sessionVars, rpmVars>>
    /\ UNCHANGED <<now, ledger, dbUp, strings, zsets, dailyReset, budget, tracked, appended>>

\* editProvider(providerId, data); a changed threshold is saved and the
\* breaker's cached configuration of the provider is dropped, so that the
\* breaker works with the saved one
editProvider(providerId, data) ==
    /\ IF ~IsAdmin(session)
       THEN /\ last' = [op |-> "editProvider", providerId |-> providerId,
                        res |-> NoPermission]
            /\ UNCHANGED <<providerRows, circuitConfigs, circuitConfig>>
       ELSE IF ~data.proxyOk
       THEN /\ last' = [op |-> "editProvider", providerId |-> providerId,
                        res |-> [ok |-> FALSE, error |-> "proxy url"]]
            /\ UNCHANGED <<providerRows, circuitConfigs, circuitConfig>>
       ELSE IF ~dbUp
       THEN /\ last' = [op |-> "editProvider", providerId |-> providerId,
                        res |-> [ok |-> FALSE, error |-> "failed"]]
            /\ UNCHANGED <<providerRows, circuitConfigs, circuitConfig>>
       ELSE IF ~findProviderById(providerRows, providerId)
       THEN /\ last' = [op |-> "editProvider", providerId |-> providerId,
                        res |-> [ok |-> FALSE, error |-> "not found"]]
            /\ UNCHANGED <<providerRows, circuitConfigs, circuitConfig>>
       ELSE /\ providerRows' = updateProvider(providerRows, providerId, data)
            /\ IF data.failureThreshold # Null /\ redisCommandOk
               THEN /\ circuitConfigs' =
                           saveProviderCircuitConfig(circuitConfigs, providerId,
                               data.failureThreshold)
                    /\ circuitConfig' =
                           IF providerId \in SessionProviders
                           THEN [circuitConfig EXCEPT
                                    !.failureThreshold = data.failureThreshold]
                           ELSE circuitConfig
               ELSE UNCHANGED <<circuitConfigs, circuitConfig>>
            /\ last' = [op |-> "editProvider", providerId |-> providerId,
                        res |-> [ok |-> TRUE]]
    /\ UNCHANGED <<session, circuit, streak, trial>>
    /\ UNCHANGED <<selectorVars, raceVars, detectorVars, redis, sessionVars, rpmVars>>
    /\ UNCHANGED <<now, ledger, dbUp, strings, zsets, dailyReset, budget, tracked, appended>>

\* removeProvider(providerId): a soft delete, and the saved configuration
\* of the circuit breaker goes with it
removeProvider(providerId) ==
    /\ IF ~IsAdmin(session)
       THEN /\ last' = [op |-> "removeProvider", providerId |-> providerId,
                        res |-> NoPermission]
            /\ UNCHANGED <<providerRows, circuitConfigs>>
       ELSE IF ~dbUp
       THEN /\ last' = [op |-> "removeProvider", providerId |-> providerId,
                        res |-> [ok |-> FALSE, error |-> "failed"]]
            /\ UNCHANGED <<providerRows, circuitConfigs>>
       ELSE /\ providerRows' = deleteProvider(providerRows, providerId)
            /\ circuitConfigs' =
                   IF redisCommandOk
                   THEN deleteProviderCircuitConfig(circuitConfigs, providerId)
                   ELSE circuitConfigs
            /\ last' = [op |-> "removeProvider", providerId |-> providerId,
                        res |-> [ok |-> TRUE]]
    /\ UNCHANGED <<session, circuitVars, selectorVars, raceVars, detectorVars>>
    /\ UNCHANGED <<redis, sessionVars, rpmVars>>
    /\ UNCHANGED <<now, ledger, dbUp, strings, zsets, dailyReset, budget, tracked, appended>>

\* getUnmaskedProviderKey(id): the full key of a live provider
getUnmaskedProviderKey(id) ==
    /\ last' =
           IF ~IsAdmin(session)
           THEN [op |-> "getUnmaskedProviderKey", providerId |-> id,
                 res |-> NoPermission]
           ELSE IF ~dbUp
           THEN [op |-> "getUnmaskedProviderKey", providerId |-> id,
                 res |-> [ok |-> FALSE, error |-> "failed"]]
           ELSE IF ~findProviderById(providerRows, id)
           THEN [op |-> "getUnmaskedProviderKey", providerId |-> id,
                 res |-> [ok |-> FALSE, error |-> "not found"]]
           ELSE [op |-> "getUnmaskedProviderKey", providerId |-> id,
                 res |-> [ok |-> TRUE, data |-> [key |-> providerRows[id].key]]]
    /\ UNCHANGED <<adminVars, circuitVars, selectorVars, raceVars, detectorVars>>
    /\ UNCHANGED <<redis, sessionVars, rpmVars>>
    /\ UNCHANGED <<now, ledger, dbUp, strings, zsets, dailyReset, budget, tracked, appended>>

\* another caller: nobody signed in, a user, or an administrator
SignIn(s) ==
    /\ s # session
    /\ session' = s
    /\ last' = NoCall
    /\ UNCHANGED <<providerRows, circuitConfigs>>
    /\ UNCHANGED <<circuitVars, selectorVars, raceVars, detectorVars>>
    /\ UNCHANGED <<redis, sessionVars, rpmVars>>
    /\ UNCHANGED <<now, ledger, dbUp, strings, zsets, dailyReset, budget, tracked, appended>>

\* ------------------------------------------------------------------------
\* The environment of the cost limiter
\* ------------------------------------------------------------------------

\* the clock advances to a later instant; cache keys whose TTL has run out
\* are gone
Tick(t) ==
    /\ t > now
    /\ now' = t
    /\ strings' = [k \in {x \in DOMAIN strings : strings[x].exp > t} |-> strings[k]]
    /\ tracked' = IF DailyStart(t, dailyReset["key"].time) > DailyStart(now, dailyReset["key"].time)
                  THEN [sum |-> 0, kept |-> TRUE]
                  ELSE tracked
    /\ UNCHANGED appended
    /\ last' = NoCall
    /\ UNCHANGED <<ledger, dbUp, zsets, dailyReset, budget, redis, sessionVars, rpmVars, circuitVars, otherVars>>

\* the durable store fails or recovers
DbChange ==
    /\ dbUp' = ~dbUp
    /\ last' = NoCall
    /\ UNCHANGED <<now, ledger, strings, zsets, dailyReset, budget, tracked, appended, redis, sessionVars, rpmVars, circuitVars, otherVars>>

\* the cache tier loses its keys (restart, flush)
CacheFlush ==
    /\ DOMAIN strings # {} \/ DOMAIN zsets # {}
    /\ strings' = EmptyMap
    /\ zsets' = EmptyMap
    /\ tracked' = [tracked EXCEPT !.kept = @ /\ DailyCounter \notin DOMAIN strings]
    /\ UNCHANGED appended
    /\ last' = NoCall
    /\ UNCHANGED <<now, ledger, dbUp, dailyReset, budget, redis, sessionVars, rpmVars, circuitVars, otherVars>>

CostRedisChange(s) ==
    /\ RedisChange(s)
    /\ last' = NoCall
    /\ UNCHANGED <<now, ledger, dbUp, strings, zsets, dailyReset, budget, tracked, appended, sessionVars, rpmVars, circuitVars, otherVars>>

\* ------------------------------------------------------------------------
\* Specifications
\* ------------------------------------------------------------------------

\* the daily reset configurations of the key and the provider scope
ResetConfigs ==
    {[key |-> [time |-> "18:00", mode |-> "fixed"], provider |-> [time |-> "00:00", mode |-> "rolling"]],
     [key |-> [time |-> "00:00", mode |-> "rolling"], provider |-> [time |-> "00:00", mode |-> "fixed"]]}

\* The instants at which something happens. 5033 is Sunday 17:00 of a week
\* that ends with its month; 5034 is the 18:00 reset; 5041 is past the 00:00,
\* the weekly and the monthly reset, and more than five hours after 5034.
Instants == {5033, 5034, 5041}

Row(t, providerId, cost) == [keyId |-> 1, providerId |-> providerId, t |-> t, cost |-> cost]

\* The ledgers the durable store may hold: no row, or a row of this month
\* only (4400), a row of this week that is inside the 18:00 daily window and
\* the last 24 hours but before today 00:00 (5012), and a row of the last five
\* hours billed to the other provider (5030).
Ledgers ==
    {<<>>,
     <<Row(4400, 1, 6), Row(5012, 1, 6), Row(5030, 2, 4)>>}

\* the ceilings <<5h, daily, weekly, monthly>> callers pass to checkCostLimits
Ceilings ==
    {<<Null, 10, Null, Null>>,
     <<12, 12, 12, 16>>,
     <<0, Null, 10, Null>>}

UserLimits == {10}

\* the entities whose limits are checked
CheckScopes == {<<"key", 1>>}
PeriodSet == {"5h", "daily", "weekly", "monthly"}

\* the <<keyId, providerId, cost>> of the trackCost calls
TrackArgs == {<<1, 1, 4>>, <<1, 1, 6>>, <<1, 2, 4>>}

\* the trackCost call of the specifications about the read paths
ReadTrackArgs == {<<1, 1, 4>>}

\* the trackCost calls while the tiers fail: a positive and a zero cost
FaultTrackArgs == {<<1, 1, 4>>, <<1, 1, 0>>}

\* the cost limiter before its first call, beside an idle session limiter
CostInit ==
    /\ redis = "ready"
    /\ activeSessions = [p \in SessionProviders |-> {}]
    /\ sessionLimit = [p \in SessionProviders |-> 0]
    /\ call = [c \in Callers |-> IdleCall]
    /\ now = 5033
    /\ ledger \in Ledgers
    /\ dbUp = TRUE
    /\ strings = EmptyMap
    /\ zsets = EmptyMap
    /\ dailyReset \in ResetConfigs
    /\ budget = [track |-> MaxTrack]
    /\ tracked = [sum |-> 0, kept |-> TRUE]
    /\ appended = EmptyMap
    /\ last = NoCall
    /\ clock = 0
    /\ rpmLimit = 0
    /\ rpmWindow = EmptyMap
    /\ rpmSeen = NoRpmCalls
    /\ circuit = ClosedCircuit
    /\ circuitConfig = DefaultCircuitConfig
    /\ streak = 0
    /\ trial = 0
    /\ pool = NoPool
    /\ selection = IdleSelection
    /\ rpmCall = [c \in Callers |-> IdleRpmCall]
    /\ overlapped = FALSE
    /\ errorRules = NoErrorRules
    /\ detector = NewDetector
    /\ reloading = NoReload
    /\ session = AdminSession
    /\ providerRows = EmptyMap
    /\ circuitConfigs = EmptyMap

SessionNext ==
    \/ \E c \in Callers, p \in SessionProviders, s \in SessionIds :
          checkAndTrackProviderSession_call(c, p, s)
    \/ \E c \in Callers : checkAndTrackProviderSession_eval(c)
    \/ \E s \in RedisStates : RedisChange(s) /\ UNCHANGED <<sessionVars, costVars, rpmVars, circuitVars, otherVars>>

\* the session limiter starts beside an idle cost limiter
SessionStart ==
    /\ redis = "ready"
    /\ activeSessions = [p \in SessionProviders |-> {}]
    /\ sessionLimit \in [SessionProviders -> 0..MaxSessionLimit]
    /\ call = [c \in Callers |-> IdleCall]
    /\ now = 5033
    /\ ledger = <<>>
    /\ dbUp = TRUE
    /\ strings = EmptyMap
    /\ zsets = EmptyMap
    /\ dailyReset = [key |-> [time |-> "18:00", mode |-> "fixed"],
                     provider |-> [time |-> "00:00", mode |-> "rolling"]]
    /\ budget = [track |-> MaxTrack]
    /\ tracked = [sum |-> 0, kept |-> TRUE]
    /\ appended = EmptyMap
    /\ last = NoCall
    /\ clock = 0
    /\ rpmLimit = 0
    /\ rpmWindow = EmptyMap
    /\ rpmSeen = NoRpmCalls
    /\ circuit = ClosedCircuit
    /\ circuitConfig = DefaultCircuitConfig
    /\ streak = 0
    /\ trial = 0
    /\ pool = NoPool
    /\ selection = IdleSelection
    /\ rpmCall = [c \in Callers |-> IdleRpmCall]
    /\ overlapped = FALSE
    /\ errorRules = NoErrorRules
    /\ detector = NewDetector
    /\ reloading = NoReload
    /\ session = AdminSession
    /\ providerRows = EmptyMap
    /\ circuitConfigs = EmptyMap

SessionSpec == SessionStart /\ [][SessionNext]_vars

\* Cost accounting with a healthy cache and a healthy durable store: costs
\* are tracked and checked while the clock passes the resets and the cache
\* may lose its keys.
CostNext ==
    \/ \E a \in TrackArgs : trackCost(a[1], a[2], a[3])
    \/ \E t \in CheckScopes, l \in Ceilings : checkCostLimits(t[2], t[1], l)
    \/ \E t \in Instants : Tick(t)
    \/ CacheFlush

CostSpec == CostInit /\ [][CostNext]_vars

\* The read paths while the cache tier comes and goes.
ReadNext ==
    \/ \E a \in ReadTrackArgs : trackCost(a[1], a[2], a[3])
    \/ \E t \in CheckScopes, l \in Ceilings : checkCostLimits(t[2], t[1], l)
    \/ \E t \in CheckScopes, p \in PeriodSet : getCurrentCost(t[2], t[1], p)
    \/ \E s \in RedisStates : CostRedisChange(s)

ReadSpec == CostInit /\ [][ReadNext]_vars

\* The checks while the cache tier and the durable store fail and recover.
FaultNext ==
    \/ \E a \in FaultTrackArgs : trackCost(a[1], a[2], a[3])
    \/ \E u \in UserIds, c \in Costs : trackUserDailyCost(u, c)
    \/ \E t \in CheckScopes, l \in Ceilings : checkCostLimits(t[2], t[1], l)
    \/ \E u \in UserIds, l \in UserLimits : checkUserDailyCost(u, l)
    \/ \E s \in RedisStates : CostRedisChange(s)
    \/ DbChange

FaultSpec == CostInit /\ [][FaultNext]_vars

\* the instants of the request-rate limiter: 60 and 65 are one window after
\* 0 and 5, 59 and 61 one second before and after the window of 0
RpmInstants == {0, 5, 59, 60, 61, 65, 125}

\* the configured ceilings: none (null), zero, and positive ones
RpmLimits == {Null} \cup (0..MaxRpmLimit)

\* the request-rate limiter before its first call, beside an idle session
\* limiter and an idle cost limiter
RpmInit ==
    /\ redis = "ready"
    /\ activeSessions = [p \in SessionProviders |-> {}]
    /\ sessionLimit = [p \in SessionProviders |-> 0]
    /\ call = [c \in Callers |-> IdleCall]
    /\ now = 5033
    /\ ledger = <<>>
    /\ dbUp = TRUE
    /\ strings = EmptyMap
    /\ zsets = EmptyMap
    /\ dailyReset = [key |-> [time |-> "18:00", mode |-> "fixed"],
                     provider |-> [time |-> "00:00", mode |-> "rolling"]]
    /\ budget = [track |-> MaxTrack]
    /\ tracked = [sum |-> 0, kept |-> TRUE]
    /\ appended = EmptyMap
    /\ last = NoCall
    /\ clock = 0
    /\ rpmLimit \in RpmLimits
    /\ rpmWindow = EmptyMap
    /\ rpmSeen = NoRpmCalls
    /\ circuit = ClosedCircuit
    /\ circuitConfig = DefaultCircuitConfig
    /\ streak = 0
    /\ trial = 0
    /\ pool = NoPool
    /\ selection = IdleSelection
    /\ rpmCall = [c \in Callers |-> IdleRpmCall]
    /\ overlapped = FALSE
    /\ errorRules = NoErrorRules
    /\ detector = NewDetector
    /\ reloading = NoReload
    /\ session = AdminSession
    /\ providerRows = EmptyMap
    /\ circuitConfigs = EmptyMap

\* One user's requests pass the request-rate limiter one after the other
\* while the clock advances and the cache tier comes and goes.
RpmNext ==
    \/ \E u \in UserIds : checkUserRPM(u, rpmLimit)
    \/ \E t \in RpmInstants : RpmTick(t)
    \/ \E s \in RedisStates : RpmRedisChange(s)

RpmSpec == RpmInit /\ [][RpmNext]_vars

\* the caller of the single claim made while the three checks are compared
GateCallers == {1}

\* the registries the provider may hold before the checks
Registries == {{}, {2}}

\* the three boolean checks before their first call: a registry that may
\* hold a session, any configured session and request-rate ceiling
GateInit ==
    /\ redis = "ready"
    /\ activeSessions \in [SessionProviders -> Registries]
    /\ sessionLimit \in [SessionProviders -> 0..MaxSessionLimit]
    /\ call = [c \in Callers |-> IdleCall]
    /\ now = 5033
    /\ ledger = <<>>
    /\ dbUp = TRUE
    /\ strings = EmptyMap
    /\ zsets = EmptyMap
    /\ dailyReset = [key |-> [time |-> "18:00", mode |-> "fixed"],
                     provider |-> [time |-> "00:00", mode |-> "rolling"]]
    /\ budget = [track |-> MaxTrack]
    /\ tracked = [sum |-> 0, kept |-> TRUE]
    /\ appended = EmptyMap
    /\ last = NoCall
    /\ clock = 0
    /\ rpmLimit \in RpmLimits
    /\ rpmWindow = EmptyMap
    /\ rpmSeen = NoRpmCalls
    /\ circuit = ClosedCircuit
    /\ circuitConfig = DefaultCircuitConfig
    /\ streak = 0
    /\ trial = 0
    /\ pool = NoPool
    /\ selection = IdleSelection
    /\ rpmCall = [c \in Callers |-> IdleRpmCall]
    /\ overlapped = FALSE
    /\ errorRules = NoErrorRules
    /\ detector = NewDetector
    /\ reloading = NoReload
    /\ session = AdminSession
    /\ providerRows = EmptyMap
    /\ circuitConfigs = EmptyMap

\* The boolean checks of one request (request rate, session count, session
\* claim) while the cache tier comes and goes.
GateNext ==
    \/ \E u \in UserIds : checkUserRPM(u, rpmLimit)
    \/ \E p \in SessionProviders : checkSessionLimit(p, sessionLimit[p])
    \/ \E c \in GateCallers, p \in SessionProviders, s \in SessionIds :
          checkAndTrackProviderSession_call(c, p, s)
    \/ \E c \in GateCallers : checkAndTrackProviderSession_eval(c)
    \/ \E s \in RedisStates : RpmRedisChange(s)

GateSpec == GateInit /\ [][GateNext]_vars

\* ceilings that stand for "no limit": null, zero and a negative number
NoCeilings == {Null, 0, -5}

\* the ceilings <<5h, daily, weekly, monthly>> with unlimited windows among
\* limited ones
OpenCeilings == {<<12, 12, 12, 16>>, <<Null, Null, Null, Null>>, <<-5, 0, Null, 4>>}

UserCeilings == NoCeilings \cup UserLimits
SessionCeilings == {Null, 0, 1}

\* all checks before their first call: a ledger with billed requests, a
\* registry that may hold a session, a session ceiling that may be none
OpenInit ==
    /\ redis = "ready"
    /\ activeSessions \in [SessionProviders -> Registries]
    /\ sessionLimit \in [SessionProviders -> SessionCeilings]
    /\ call = [c \in Callers |-> IdleCall]
    /\ now = 5033
    /\ ledger \in {l \in Ledgers : l # <<>>}
    /\ dbUp = TRUE
    /\ strings = EmptyMap
    /\ zsets = EmptyMap
    /\ dailyReset = [key |-> [time |-> "18:00", mode |-> "fixed"],
                     provider |-> [time |-> "00:00", mode |-> "rolling"]]
    /\ budget = [track |-> MaxTrack]
    /\ tracked = [sum |-> 0, kept |-> TRUE]
    /\ appended = EmptyMap
    /\ last = NoCall
    /\ clock = 0
    /\ rpmLimit = 0
    /\ rpmWindow = EmptyMap
    /\ rpmSeen = NoRpmCalls
    /\ circuit = ClosedCircuit
    /\ circuitConfig = DefaultCircuitConfig
    /\ streak = 0
    /\ trial = 0
    /\ pool = NoPool
    /\ selection = IdleSelection
    /\ rpmCall = [c \in Callers |-> IdleRpmCall]
    /\ overlapped = FALSE
    /\ errorRules = NoErrorRules
    /\ detector = NewDetector
    /\ reloading = NoReload
    /\ session = AdminSession
    /\ providerRows = EmptyMap
    /\ circuitConfigs = EmptyMap

\* Every check is called with ceilings that may be null, zero or negative;
\* both tiers are healthy, the counters are filled from the ledger, by the
\* admitted requests and by the claimed sessions.
OpenNext ==
    \/ \E t \in CheckScopes, l \in OpenCeilings : checkCostLimits(t[2], t[1], l)
    \/ \E u \in UserIds, l \in UserCeilings : checkUserDailyCost(u, l)
    \/ \E u \in UserIds, l \in RpmLimits : checkUserRPM(u, l)
    \/ \E p \in SessionProviders, l \in SessionCeilings : checkSessionLimit(p, l)
    \/ \E c \in GateCallers, p \in SessionProviders, s \in SessionIds :
          checkAndTrackProviderSession_call(c, p, s)
    \/ \E c \in GateCallers : checkAndTrackProviderSession_eval(c)

OpenSpec == OpenInit /\ [][OpenNext]_vars

\* the numeric ids of keys and providers whose counters are named
KeyIds == {1, 11}

\* the counters a key is built for
KeyInputs ==
    [type : {"key", "provider"}, id : KeyIds, period : PeriodSet,
     resetTime : ConfiguredResetTimes, resetMode : {"fixed", "rolling"}]

\* the keys of two counters are built, once in a behaviour
costKeys(a, b) ==
    /\ last = NoCall
    /\ last' = [op |-> "costKeys", a |-> a, b |-> b,
                keyA |-> costKeyOf(a.type, a.id, a.period, a.resetTime, a.resetMode),
                keyB |-> costKeyOf(b.type, b.id, b.period, b.resetTime, b.resetMode)]
    /\ UNCHANGED <<redis, sessionVars, rpmVars, circuitVars, otherVars>>
    /\ UNCHANGED <<now, ledger, dbUp, strings, zsets, dailyReset, budget, tracked, appended>>

KeyNext == last = NoCall /\ \E a \in KeyInputs, b \in KeyInputs : costKeys(a, b)

\* the cost limiter before any key is built
KeyInit ==
    /\ redis = "ready"
    /\ activeSessions = [p \in SessionProviders |-> {}]
    /\ sessionLimit = [p \in SessionProviders |-> 0]
    /\ call = [c \in Callers |-> IdleCall]
    /\ now = 5033
    /\ ledger = <<>>
    /\ dbUp = TRUE
    /\ strings = EmptyMap
    /\ zsets = EmptyMap
    /\ dailyReset = [key |-> [time |-> "18:00", mode |-> "fixed"],
                     provider |-> [time |-> "00:00", mode |-> "rolling"]]
    /\ budget = [track |-> MaxTrack]
    /\ tracked = [sum |-> 0, kept |-> TRUE]
    /\ appended = EmptyMap
    /\ last = NoCall
    /\ clock = 0
    /\ rpmLimit = 0
    /\ rpmWindow = EmptyMap
    /\ rpmSeen = NoRpmCalls
    /\ circuit = ClosedCircuit
    /\ circuitConfig = DefaultCircuitConfig
    /\ streak = 0
    /\ trial = 0
    /\ pool = NoPool
    /\ selection = IdleSelection
    /\ rpmCall = [c \in Callers |-> IdleRpmCall]
    /\ overlapped = FALSE
    /\ errorRules = NoErrorRules
    /\ detector = NewDetector
    /\ reloading = NoReload
    /\ session = AdminSession
    /\ providerRows = EmptyMap
    /\ circuitConfigs = EmptyMap

\* The names of the cost counters, built for every pair of counters.
KeySpec == KeyInit /\ [][KeyNext]_vars

\* the instants around the end of a 5h window: 5037 and 5038 are four and
\* five hours after 5033, 5039 is five hours after 5034
WindowInstants == {5033, 5034, 5037, 5038, 5039}

\* the cost limiter before its first call, with an empty ledger
WindowInit ==
    /\ redis = "ready"
    /\ activeSessions = [p \in SessionProviders |-> {}]
    /\ sessionLimit = [p \in SessionProviders |-> 0]
    /\ call = [c \in Callers |-> IdleCall]
    /\ now = 5033
    /\ ledger = <<>>
    /\ dbUp = TRUE
    /\ strings = EmptyMap
    /\ zsets = EmptyMap
    /\ dailyReset \in ResetConfigs
    /\ budget = [track |-> MaxTrack]
    /\ tracked = [sum |-> 0, kept |-> TRUE]
    /\ appended = EmptyMap
    /\ last = NoCall
    /\ clock = 0
    /\ rpmLimit = 0
    /\ rpmWindow = EmptyMap
    /\ rpmSeen = NoRpmCalls
    /\ circuit = ClosedCircuit
    /\ circuitConfig = DefaultCircuitConfig
    /\ streak = 0
    /\ trial = 0
    /\ pool = NoPool
    /\ selection = IdleSelection
    /\ rpmCall = [c \in Callers |-> IdleRpmCall]
    /\ overlapped = FALSE
    /\ errorRules = NoErrorRules
    /\ detector = NewDetector
    /\ reloading = NoReload
    /\ session = AdminSession
    /\ providerRows = EmptyMap
    /\ circuitConfigs = EmptyMap

\* Costs are appended to the 5h window and the window is read while the
\* clock passes the end of the window of each entry.
WindowNext ==
    \/ \E a \in TrackArgs : trackCost(a[1], a[2], a[3])
    \/ \E t \in CheckScopes : getCurrentCost(t[2], t[1], "5h")
    \/ \E t \in WindowInstants : Tick(t)

WindowSpec == WindowInit /\ [][WindowNext]_vars

\* The spend is looked up while the cache tier and the durable store fail
\* and recover.
LookupNext ==
    \/ \E a \in ReadTrackArgs : trackCost(a[1], a[2], a[3])
    \/ \E t \in CheckScopes, p \in PeriodSet : getCurrentCost(t[2], t[1], p)
    \/ \E s \in RedisStates : CostRedisChange(s)
    \/ DbChange

LookupSpec == CostInit /\ [][LookupNext]_vars

\* the instants of the circuit breaker: 1800 and 1810 are one default open
\* duration after 0 and 10, 1809 is one second before the latter
CircuitInstants == {0, 10, 1800, 1809, 1810, 3700}

\* the configurations of the provider's circuit
CircuitConfigs ==
    [failureThreshold : 1..MaxFailureThreshold,
     openDuration : {DefaultOpenDuration},
     halfOpenSuccessThreshold : {1, DefaultHalfOpenSuccessThreshold}]

\* the circuit breaker on its first observation of the provider, beside idle
\* limiters
CircuitInit ==
    /\ redis = "ready"
    /\ activeSessions = [p \in SessionProviders |-> {}]
    /\ sessionLimit = [p \in SessionProviders |-> 0]
    /\ call = [c \in Callers |-> IdleCall]
    /\ now = 5033
    /\ ledger = <<>>
    /\ dbUp = TRUE
    /\ strings = EmptyMap
    /\ zsets = EmptyMap
    /\ dailyReset = [key |-> [time |-> "18:00", mode |-> "fixed"],
                     provider |-> [time |-> "00:00", mode |-> "rolling"]]
    /\ budget = [track |-> MaxTrack]
    /\ tracked = [sum |-> 0, kept |-> TRUE]
    /\ appended = EmptyMap
    /\ last = NoCall
    /\ clock = 0
    /\ rpmLimit = 0
    /\ rpmWindow = EmptyMap
    /\ rpmSeen = NoRpmCalls
    /\ circuit = ClosedCircuit
    /\ circuitConfig \in CircuitConfigs
    /\ streak = 0
    /\ trial = 0
    /\ pool = NoPool
    /\ selection = IdleSelection
    /\ rpmCall = [c \in Callers |-> IdleRpmCall]
    /\ overlapped = FALSE
    /\ errorRules = NoErrorRules
    /\ detector = NewDetector
    /\ reloading = NoReload
    /\ session = AdminSession
    /\ providerRows = EmptyMap
    /\ circuitConfigs = EmptyMap

\* Outcomes of the provider's requests are recorded and its availability is
\* asked while the clock advances; an administrator may reset the circuit.
CircuitNext ==
    \/ \E p \in SessionProviders : recordFailure(p)
    \/ \E p \in SessionProviders : recordSuccess(p)
    \/ \E p \in SessionProviders : isAvailable(p)
    \/ \E p \in SessionProviders : resetProviderCircuit(p)
    \/ \E t \in CircuitInstants : CircuitTick(t)

CircuitSpec == CircuitInit /\ [][CircuitNext]_vars

\* the candidate sets of a request: none, the two preferred providers, all
CandidateSets == {{}, {1, 2}, Providers}

\* a request enters the selector with its candidates, each provider's
\* checks answering one way for the length of the request
SelectInit ==
    /\ redis = "ready"
    /\ activeSessions = [p \in SessionProviders |-> {}]
    /\ sessionLimit = [p \in SessionProviders |-> 0]
    /\ call = [c \in Callers |-> IdleCall]
    /\ now = 5033
    /\ ledger = <<>>
    /\ dbUp = TRUE
    /\ strings = EmptyMap
    /\ zsets = EmptyMap
    /\ dailyReset = [key |-> [time |-> "18:00", mode |-> "fixed"],
                     provider |-> [time |-> "00:00", mode |-> "rolling"]]
    /\ budget = [track |-> MaxTrack]
    /\ tracked = [sum |-> 0, kept |-> TRUE]
    /\ appended = EmptyMap
    /\ last = NoCall
    /\ clock = 0
    /\ rpmLimit = 0
    /\ rpmWindow = EmptyMap
    /\ rpmSeen = NoRpmCalls
    /\ circuit = ClosedCircuit
    /\ circuitConfig = DefaultCircuitConfig
    /\ streak = 0
    /\ trial = 0
    /\ pool \in [candidates : CandidateSets, health : [Providers -> Health],
                  affinity : Providers \cup {Null}]
    /\ selection = IdleSelection
    /\ rpmCall = [c \in Callers |-> IdleRpmCall]
    /\ overlapped = FALSE
    /\ errorRules = NoErrorRules
    /\ detector = NewDetector
    /\ reloading = NoReload
    /\ session = AdminSession
    /\ providerRows = EmptyMap
    /\ circuitConfigs = EmptyMap

SelectNext ==
    \/ \E c \in Providers : selectProvider_filter(c)
    \/ selectProvider_exhausted
    \/ \E ok \in BOOLEAN : selectProvider_forward(ok)

\* the request's handler runs on: a step it can take is taken
SelectSpec == SelectInit /\ [][SelectNext]_vars /\ WF_vars(SelectNext)

\* the instants of the interleaved calls: half a window and a whole window
\* after the first
RaceInstants == {0, 30, 60}

\* every caller is about to call checkUserRPM for user 1, whose window is
\* empty, under a positive limit
RaceInit ==
    /\ redis = "ready"
    /\ activeSessions = [p \in SessionProviders |-> {}]
    /\ sessionLimit = [p \in SessionProviders |-> 0]
    /\ call = [c \in Callers |-> IdleCall]
    /\ now = 5033
    /\ ledger = <<>>
    /\ dbUp = TRUE
    /\ strings = EmptyMap
    /\ zsets = EmptyMap
    /\ dailyReset = [key |-> [time |-> "18:00", mode |-> "fixed"],
                     provider |-> [time |-> "00:00", mode |-> "rolling"]]
    /\ budget = [track |-> MaxTrack]
    /\ tracked = [sum |-> 0, kept |-> TRUE]
    /\ appended = EmptyMap
    /\ last = NoCall
    /\ clock = 0
    /\ rpmLimit \in 1..MaxRpmLimit
    /\ rpmWindow = EmptyMap
    /\ rpmSeen = NoRpmCalls
    /\ circuit = ClosedCircuit
    /\ circuitConfig = DefaultCircuitConfig
    /\ streak = 0
    /\ trial = 0
    /\ pool = NoPool
    /\ selection = IdleSelection
    /\ rpmCall = [c \in Callers |-> IdleRpmCall]
    /\ overlapped = FALSE
    /\ errorRules = NoErrorRules
    /\ detector = NewDetector
    /\ reloading = NoReload
    /\ session = AdminSession
    /\ providerRows = EmptyMap
    /\ circuitConfigs = EmptyMap

\* The callers' pipelines interleave while the clock advances.
RaceNext ==
    \/ \E c \in Callers, u \in UserIds : checkUserRPM_count(c, u, rpmLimit)
    \/ \E c \in Callers, u \in UserIds : checkUserRPM_record(c, u)
    \/ \E t \in RaceInstants : RpmTick(t)

RaceSpec == RaceInit /\ [][RaceNext]_vars

\* the tables the detector may be constructed over: the migration pending,
\* or done with some rules created
ErrorRuleTables ==
    {NoErrorRules} \cup [exists : {TRUE}, rows : SUBSET CustomRules]

\* the detector has just been constructed: its constructor has called
\* reload(), whose query is under way
RefreshInit ==
    /\ redis = "ready"
    /\ activeSessions = [p \in SessionProviders |-> {}]
    /\ sessionLimit = [p \in SessionProviders |-> 0]
    /\ call = [c \in Callers |-> IdleCall]
    /\ now = 5033
    /\ ledger = <<>>
    /\ dbUp = TRUE
    /\ strings = EmptyMap
    /\ zsets = EmptyMap
    /\ dailyReset = [key |-> [time |-> "18:00", mode |-> "fixed"],
                     provider |-> [time |-> "00:00", mode |-> "rolling"]]
    /\ budget = [track |-> MaxTrack]
    /\ tracked = [sum |-> 0, kept |-> TRUE]
    /\ appended = EmptyMap
    /\ last = NoCall
    /\ clock = 0
    /\ rpmLimit = 0
    /\ rpmWindow = EmptyMap
    /\ rpmSeen = NoRpmCalls
    /\ circuit = ClosedCircuit
    /\ circuitConfig = DefaultCircuitConfig
    /\ streak = 0
    /\ trial = 0
    /\ pool = NoPool
    /\ rpmCall = [c \in Callers |-> IdleRpmCall]
    /\ overlapped = FALSE
    /\ errorRules \in ErrorRuleTables
    /\ detector = reloadEnter(NewDetector, NoReload).detector
    /\ reloading = reloadEnter(NewDetector, NoReload).reloading
    /\ session = AdminSession
    /\ providerRows = EmptyMap
    /\ circuitConfigs = EmptyMap
    /\ selection = IdleSelection

\* The rules are initialised and reloaded while the store is healthy.
RefreshNext ==
    \/ reload
    \/ getActiveErrorRules_answer
    \/ reload_resume
    \/ initializeDefaultErrorRules
    \/ migrate

RefreshSpec == RefreshInit /\ [][RefreshNext]_vars

\* The same while the durable store fails and recovers.
ReloadNext ==
    \/ reload
    \/ getActiveErrorRules_answer
    \/ reload_resume
    \/ initializeDefaultErrorRules
    \/ migrate
    \/ DbChange

ReloadSpec == RefreshInit /\ [][ReloadNext]_vars

\* Callers with and without the administrator's role administer the
\* providers, while the first provider's requests fail until its circuit
\* is open.
AdminInit ==
    /\ redis = "ready"
    /\ activeSessions = [p \in SessionProviders |-> {}]
    /\ sessionLimit = [p \in SessionProviders |-> 0]
    /\ call = [c \in Callers |-> IdleCall]
    /\ now = 5033
    /\ ledger = <<>>
    /\ dbUp = TRUE
    /\ strings = EmptyMap
    /\ zsets = EmptyMap
    /\ dailyReset = [key |-> [time |-> "18:00", mode |-> "fixed"],
                     provider |-> [time |-> "00:00", mode |-> "rolling"]]
    /\ budget = [track |-> MaxTrack]
    /\ tracked = [sum |-> 0, kept |-> TRUE]
    /\ appended = EmptyMap
    /\ last = NoCall
    /\ clock = 0
    /\ rpmLimit = 0
    /\ rpmWindow = EmptyMap
    /\ rpmSeen = NoRpmCalls
    /\ circuit = ClosedCircuit
    /\ circuitConfig = [DefaultCircuitConfig EXCEPT !.failureThreshold = 1]
    /\ streak = 0
    /\ trial = 0
    /\ pool = NoPool
    /\ selection = IdleSelection
    /\ rpmCall = [c \in Callers |-> IdleRpmCall]
    /\ overlapped = FALSE
    /\ errorRules = NoErrorRules
    /\ detector = NewDetector
    /\ reloading = NoReload
    /\ session = NoSession
    /\ providerRows = EmptyMap
    /\ circuitConfigs = EmptyMap

AdminNext ==
    \/ \E s \in Sessions : SignIn(s)
    \/ \E data \in ProviderData : addProvider(data)
    \/ \E id \in ProviderIds, data \in ProviderData : editProvider(id, data)
    \/ \E id \in ProviderIds : removeProvider(id)
    \/ \E id \in ProviderIds : getUnmaskedProviderKey(id)
    \/ \E p \in SessionProviders : resetProviderCircuit(p)
    \/ \E p \in SessionProviders : circuit.state = "closed" /\ recordFailure(p)

AdminSpec == AdminInit /\ [][AdminNext]_vars

\* ------------------------------------------------------------------------
\* Properties of the session limiter (SessionSpec)
\* ------------------------------------------------------------------------
Min(a, b) == IF a < b THEN a ELSE b

ScriptCallers == {c \in Callers : call[c].pc = "done" /\ call[c].ret.via = "script"}

\* every caller has returned through the script on the same provider, and no
\* two of them carried the same session id
AllThroughScript ==
    /\ ScriptCallers = Callers
    /\ \A c, d \in Callers : call[c].providerId = call[d].providerId
    /\ \A c, d \in Callers : c # d => call[c].sessionId # call[d].sessionId

Admitted == {c \in Callers : call[c].ret.allowed /\ call[c].ret.tracked}

\* C1: with the cache reachable and a limit L > 0, NCallers concurrent calls
\* with distinct session ids against an empty registry admit exactly
\* min(NCallers, L) callers (allowed and tracked); every other caller is
\* refused, whatever the interleaving.
C1_AtomicAdmission ==
    AllThroughScript =>
        /\ \A c \in Callers : call[c].limit > 0
        /\ Cardinality(Admitted) = Min(NCallers, sessionLimit[call[1].providerId])
        /\ \A c \in Callers \ Admitted : ~call[c].ret.allowed

\* C1 witness: all callers raced for fewer slots than callers; one was refused.
C1_Witness ==
    /\ AllThroughScript
    /\ sessionLimit[call[1].providerId] < NCallers
    /\ \E c \in Callers : ~call[c].ret.allowed
    /\ \E c \in Callers : call[c].ret.tracked

\* C2: the registry of a provider never holds more than its limit L > 0 of
\* session ids (the cache reachable or not), and a call that returns
\* allowed=false has left the registry as it was and reports tracked=false.
C2_RegistryBounded ==
    /\ \A p \in SessionProviders :
          sessionLimit[p] > 0 => Cardinality(activeSessions[p]) <= sessionLimit[p]
    /\ \A c \in Callers :
          (call[c].pc = "done" /\ ~call[c].ret.allowed) =>
              /\ call[c].before # NoRegistry
              /\ call[c].after = call[c].before
              /\ ~call[c].ret.tracked

\* C2 witness: a caller was refused by a full registry.
C2_Witness ==
    \E c \in Callers :
        /\ call[c].pc = "done" /\ ~call[c].ret.allowed
        /\ Cardinality(activeSessions[call[c].providerId]) = call[c].limit

\* C3: a call whose (providerId, sessionId) is already registered is allowed,
\* is not tracked again and leaves the count as it was, also when the registry
\* is full; a session is entered into the registry by one call at most.
C3_IdempotentClaim ==
    /\ \A c \in ScriptCallers :
          call[c].sessionId \in call[c].before =>
              /\ call[c].ret.allowed /\ ~call[c].ret.tracked
              /\ call[c].after = call[c].before
              /\ call[c].ret.count = Cardinality(call[c].before)
    /\ \A c, d \in ScriptCallers :
          (c # d /\ call[c].providerId = call[d].providerId
                 /\ call[c].sessionId = call[d].sessionId)
              => ~(call[c].ret.tracked /\ call[d].ret.tracked)

\* C3 witness: the same pair was claimed twice, the second time with the
\* registry exactly at the limit.
C3_Witness ==
    \E c, d \in ScriptCallers :
        /\ c # d /\ call[c].sessionId = call[d].sessionId
        /\ call[c].ret.tracked /\ call[d].ret.allowed /\ ~call[d].ret.tracked
        /\ Cardinality(call[d].before) = call[d].limit

\* ------------------------------------------------------------------------
\* Properties of the cost limiter
\* ------------------------------------------------------------------------

\* the entities a cost check may be asked about
Scopes == {<<"key", 1>>, <<"provider", 1>>, <<"provider", 2>>}

\* the windows in their declared order
WindowNames == <<"5h", "daily", "weekly", "monthly">>

\* the cache tier answers commands
CacheReachable == redis = "ready"

RECURSIVE SumAt(_)
SumAt(rows) ==
    IF rows = {} THEN 0
    ELSE LET i == CHOOSE x \in rows : TRUE
         IN  ledger[i].cost + SumAt(rows \ {i})

\* the start of an entity's window at the present instant
WindowStart(type, period) ==
    CASE period = "5h" -> now - Window5h
      [] period = "daily" /\ dailyReset[type].mode = "rolling" -> now - Window24h
      [] period = "daily" -> DailyStart(now, dailyReset[type].time)
      [] period = "weekly" -> WeekStart(now)
      [] OTHER -> MonthStart(now)

\* the durable store's sum of an entity's window [startTime, endTime)
LedgerSum(type, id, period) ==
    SumAt({i \in DOMAIN ledger :
        /\ (IF type = "key" THEN ledger[i].keyId ELSE ledger[i].providerId) = id
        /\ WindowStart(type, period) <= ledger[i].t
        /\ ledger[i].t < now})

\* an entity's window is kept in a rolling set
IsRolling(type, period) ==
    period = "5h" \/ (period = "daily" /\ dailyReset[type].mode = "rolling")

CounterKey(type, id, period) ==
    CASE period = "5h" -> Key5h(type, id)
      [] period = "daily" /\ dailyReset[type].mode = "rolling" -> KeyDailyRolling(type, id)
      [] OTHER -> KeyFixed(type, id, period, dailyReset[type].time)

RECURSIVE SumScores(_, _)
SumScores(entries, scores) ==
    IF scores = {} THEN 0
    ELSE LET t == CHOOSE x \in scores : TRUE
         IN  entries[t] + SumScores(entries, scores \ {t})

\* the entries of a rolling set that are still inside the window
LiveScores(type, id, period) ==
    IF CounterKey(type, id, period) \in DOMAIN zsets
    THEN {t \in DOMAIN zsets[CounterKey(type, id, period)] :
             t > now - (IF period = "5h" THEN Window5h ELSE Window24h)}
    ELSE {}

\* the cache holds the counter of an entity's window
CounterPresent(type, id, period) ==
    IF IsRolling(type, period)
    THEN LiveScores(type, id, period) # {}
    ELSE CounterKey(type, id, period) \in DOMAIN strings

\* the value of the counter the cache holds
CounterValue(type, id, period) ==
    IF IsRolling(type, period)
    THEN SumScores(zsets[CounterKey(type, id, period)], LiveScores(type, id, period))
    ELSE strings[CounterKey(type, id, period)].val

\* the window indices a limit configuration sets a ceiling for
Configured(ceilings) == {i \in 1..4 : ceilings[i] # Null /\ ceilings[i] > 0}

SetMin(S) == CHOOSE x \in S : \A y \in S : x <= y

\* the result of checkCostLimits in the present state
CheckResult(scope, ceilings) ==
    checkCostLimitsOn(scope[2], scope[1], LimitsOf(scope[1], ceilings), Cache).res

\* the current value of the i-th window as the check with result res reads it
CurrentValue(scope, i, res) ==
    IF res.source = "db" THEN LedgerSum(scope[1], scope[2], WindowNames[i])
    ELSE IF CounterPresent(scope[1], scope[2], WindowNames[i])
    THEN CounterValue(scope[1], scope[2], WindowNames[i])
    ELSE 0

\* the configured windows whose current value has reached the ceiling
Breached(scope, ceilings, res) ==
    {i \in Configured(ceilings) : CurrentValue(scope, i, res) >= ceilings[i]}

\* C4: whenever the durable store is healthy, checkCostLimits denies exactly
\* when some configured window's current value is >= its limit, and the
\* denial names the first such window in the order 5h, daily, weekly, monthly
\* with its current value rounded to 4 decimals and its limit.
C4_FirstBreachedWindow ==
    dbUp =>
        \A scope \in Scopes, ceilings \in Ceilings :
            LET res == CheckResult(scope, ceilings)
                breached == Breached(scope, ceilings, res)
            IN  /\ ~res.error
                /\ res.allowed <=> breached = {}
                /\ ~res.allowed =>
                      /\ res.name = WindowNames[SetMin(breached)]
                      /\ res.shown = ToFixed4(CurrentValue(scope, SetMin(breached), res))
                      /\ res.limit = ceilings[SetMin(breached)]

\* a check has just denied at the monthly window after the 5h, the daily
\* and the weekly window were examined and found under their limits
C4_Witness ==
    /\ last.op = "checkCostLimits"
    /\ ~last.res.allowed
    /\ last.res.name = "monthly"
    /\ last.res.limit = 16
    /\ last.res.current = 16
    /\ last.res.shown = 2

\* C5: with the cache reachable and a fixed daily limit D on a key whose
\* ledger has no row in the current daily window, checkCostLimits allows
\* while the costs tracked in the window sum to less than D and denies, with
\* that sum as the current value, once they reach D.
C5_DailyLimitAccumulates ==
    (/\ CacheReachable
     /\ dbUp
     /\ dailyReset["key"].mode = "fixed"
     /\ tracked.kept
     /\ LedgerSum("key", 1, "daily") = 0)
        => \A D \in {8, 10, 12} :
              LET res == CheckResult(<<"key", 1>>, <<Null, D, Null, Null>>)
              IN  /\ res.allowed <=> tracked.sum < D
                  /\ ~res.allowed => res.name = "daily" /\ res.current = tracked.sum

\* costs of 4 and 6 were tracked in one daily window and the check with the
\* daily limit 10 has just denied with the current value 10
C5_Witness ==
    /\ last.op = "checkCostLimits"
    /\ CacheReachable
    /\ dailyReset["key"].mode = "fixed"
    /\ tracked = [sum |-> 10, kept |-> TRUE]
    /\ LedgerSum("key", 1, "daily") = 0
    /\ ~last.res.allowed
    /\ last.res.name = "daily"
    /\ last.res.current = 10
    /\ last.res.limit = 10
    /\ last.res.source = "cache"

\* the value the cache holds for an entity's window, 0 without a counter
CounterTotal(type, id, period) ==
    IF CounterPresent(type, id, period) THEN CounterValue(type, id, period) ELSE 0

\* the cache keys of the windows of the key scope and of the provider scope
TrackedKeys(keyId, providerId) ==
    {CounterKey("key", keyId, p) : p \in PeriodSet}
        \cup {CounterKey("provider", providerId, p) : p \in PeriodSet}

\* C10: a trackCost call with a positive amount and the cache reachable adds
\* the amount to the 5h, daily, weekly and monthly counter of the key and of
\* the provider, the daily one being the rolling set under the rolling reset
\* mode and the fixed accumulator of the scope's reset time otherwise; every
\* other cache key, the other daily counter of either scope included, stays
\* as it was.
C10_TrackCostFrame ==
    [][\A a \in TrackArgs :
          (trackCost(a[1], a[2], a[3]) /\ CacheReachable /\ a[3] > 0) =>
              /\ \A p \in PeriodSet :
                    /\ CounterTotal("key", a[1], p)' = CounterTotal("key", a[1], p) + a[3]
                    /\ CounterTotal("provider", a[2], p)'
                          = CounterTotal("provider", a[2], p) + a[3]
              /\ \A k \in (DOMAIN strings \cup DOMAIN strings') \ TrackedKeys(a[1], a[2]) :
                    /\ k \in DOMAIN strings /\ k \in DOMAIN strings'
                    /\ strings'[k] = strings[k]
              /\ \A k \in (DOMAIN zsets \cup DOMAIN zsets') \ TrackedKeys(a[1], a[2]) :
                    /\ k \in DOMAIN zsets /\ k \in DOMAIN zsets'
                    /\ zsets'[k] = zsets[k]
      ]_vars

\* a cost has just been tracked for key 1 and provider 1, whose daily window
\* is rolling: the provider's rolling set exists, its fixed daily accumulator
\* does not, the key's fixed daily accumulator does, and the cache holds the
\* counters of provider 2 as well
C10_Witness ==
    /\ last.op = "trackCost"
    /\ last.applied
    /\ last.providerId = 1
    /\ dailyReset["provider"].mode = "rolling"
    /\ KeyDailyRolling("provider", 1) \in DOMAIN zsets
    /\ KeyFixed("provider", 1, "daily", dailyReset["provider"].time) \notin DOMAIN strings
    /\ KeyFixed("key", 1, "daily", dailyReset["key"].time) \in DOMAIN strings
    /\ KeyDailyRolling("key", 1) \notin DOMAIN zsets
    /\ Key5h("provider", 2) \in DOMAIN zsets
    /\ CounterKey("provider", 2, "weekly") \in DOMAIN strings

\* the result of getCurrentCost in the present state
CurrentCost(scope, period) ==
    getCurrentCostOn(scope[2], scope[1], period, dailyReset[scope[1]].time,
                     dailyReset[scope[1]].mode, Cache)

\* a limit configuration with the ceiling D on the i-th window alone
OnlyWindow(i, D) == [j \in 1..4 |-> IF j = i THEN D ELSE Null]

\* C7: with the cache and the durable store healthy, a counter the cache
\* holds is read from the cache, a value of 0 included, and the durable store
\* is not asked; a counter the cache does not hold is read from the durable
\* store. A rolling set counts as held exactly when its key exists after the
\* eviction. This holds for getCurrentCost and for checkCostLimits.
C7_MissIsAbsenceNotZero ==
    (CacheReachable /\ dbUp) =>
        \A scope \in Scopes, i \in 1..4 :
            LET got == CurrentCost(scope, WindowNames[i])
                res == CheckResult(scope, OnlyWindow(i, 10))
            IN  IF CounterPresent(scope[1], scope[2], WindowNames[i])
                THEN /\ got.source = "cache"
                     /\ got.value = CounterValue(scope[1], scope[2], WindowNames[i])
                     /\ res.source = "cache"
                     /\ res.allowed <=> CounterValue(scope[1], scope[2], WindowNames[i]) < 10
                ELSE /\ got.source = "db"
                     /\ got.value = LedgerSum(scope[1], scope[2], WindowNames[i])
                     /\ res.source = "db"
                     /\ res.allowed <=> LedgerSum(scope[1], scope[2], WindowNames[i]) < 10

\* getCurrentCost has just read the key's weekly counter, which the cache
\* holds with the value 0, from the cache
C7_Witness ==
    /\ last.op = "getCurrentCost"
    /\ last.type = "key"
    /\ last.period = "weekly"
    /\ last.source = "cache"
    /\ last.value = 0
    /\ CacheReachable
    /\ CounterKey("key", 1, "weekly") \in DOMAIN strings
    /\ strings[CounterKey("key", 1, "weekly")].val = 0

\* C9: with the durable store healthy, a getCurrentCost call that did not
\* end in a cache hit (cache miss, failed cache command, cache tier
\* unavailable) returns the ledger's sum of the requested window.
C9_FallsBackToLedger ==
    (last.op = "getCurrentCost" /\ dbUp /\ last.source # "cache")
        => last.value = LedgerSum(last.type, last.id, last.period)

\* C6: with the cache tier unavailable and the durable store healthy,
\* checkCostLimits denies exactly when the ledger's sum over some configured
\* window [startTime, endTime) has reached the limit, and names the first
\* such window.
C6_CacheDownSameAsLedger ==
    (~CacheReachable /\ dbUp) =>
        \A scope \in Scopes, ceilings \in Ceilings :
            LET res == CheckResult(scope, ceilings)
                breached == {i \in Configured(ceilings) :
                                LedgerSum(scope[1], scope[2], WindowNames[i]) >= ceilings[i]}
            IN  /\ ~res.error
                /\ res.allowed <=> breached = {}
                /\ ~res.allowed => res.name = WindowNames[SetMin(breached)]

\* with the cache tier unavailable a check has just denied at the monthly
\* window on the ledger's sum 16, while the cache still holds a monthly
\* counter of 4 for the key
C6_Witness ==
    /\ last.op = "checkCostLimits"
    /\ ~CacheReachable
    /\ dbUp
    /\ ~last.res.allowed
    /\ last.res.name = "monthly"
    /\ last.res.current = 16
    /\ last.res.source = "db"
    /\ CounterKey("key", 1, "monthly") \in DOMAIN strings
    /\ strings[CounterKey("key", 1, "monthly")].val = 4

\* C8: a check that has to ask the durable store while the durable store is
\* faulty ends in an error: checkCostLimits off the cache path, and
\* checkUserDailyCost when the cache client is absent or does not hold the
\* user's counter.
C8_DurableFaultPropagated ==
    ~dbUp =>
        /\ (last.op = "checkCostLimits" /\ last.res.source = "db") => last.res.error
        /\ (/\ last.op = "checkUserDailyCost"
            /\ last.res.source # "unlimited"
            /\ \/ ~redisClient
               \/ redisCommandOk /\ KeyUserDaily(last.userId) \notin DOMAIN strings)
              => last.res.error

\* ------------------------------------------------------------------------
\* Properties of trackCost under faults (FaultSpec)
\* ------------------------------------------------------------------------

\* C11: trackCost never raises to its caller: every call ends at its guard,
\* in its catch block or after its writes; a call with a cost <= 0 or with
\* no cache client changes no counter, and a call whose cache commands fail
\* returns as well, its error caught.
C11_TrackCostNeverRaises ==
    [][last'.op = "trackCost" /\ budget' # budget =>
          /\ last'.outcome \in {"returned", "caught", "written"}
          /\ (last'.cost <= 0 \/ ~redisClient) =>
                 /\ last'.outcome = "returned"
                 /\ strings' = strings /\ zsets' = zsets
          /\ (last'.cost > 0 /\ redisClient /\ ~redisCommandOk) =>
                 last'.outcome = "caught"]_vars

\* trackCost has returned from its catch block while the cache holds
\* counters of an earlier call
C11_Witness ==
    /\ last.op = "trackCost" /\ last.outcome = "caught"
    /\ redis = "erroring"
    /\ Key5h("key", 1) \in DOMAIN zsets

\* ------------------------------------------------------------------------
\* Properties of the request-rate limiter (RpmSpec)
\* ------------------------------------------------------------------------

\* the calls so far were all made less than one window after the first one,
\* with a positive limit and the cache reachable at each
InFirstWindow ==
    /\ last.op = "checkUserRPM"
    /\ rpmLimit > 0
    /\ rpmSeen.clean
    /\ clock < rpmSeen.first + RpmWindowSeconds

\* C12: of the sequential checkUserRPM calls of one user within one
\* 60-second window, with a limit R > 0 and the cache reachable, the k-th is
\* admitted with current = k for every k <= R, and every further call is
\* denied with current = R.
C12_FirstRAdmitted ==
    InFirstWindow =>
        IF rpmSeen.n <= rpmLimit
        THEN last.res.allowed /\ last.res.current = rpmSeen.n
        ELSE ~last.res.allowed /\ last.res.current = rpmLimit

\* the call after the R-th, 59 seconds after the first, is denied
C12_Witness ==
    /\ InFirstWindow
    /\ rpmLimit = MaxRpmLimit
    /\ rpmSeen.n = rpmLimit + 1
    /\ clock = 59
    /\ ~last.res.allowed

\* a checkUserRPM call has just returned, every call so far having been made
\* with a positive limit and the cache reachable
RpmCounted ==
    /\ last.op = "checkUserRPM"
    /\ rpmLimit > 0
    /\ rpmSeen.clean

\* the requests admitted so far, the one just admitted included, whose age
\* is among ages
AdmittedAged(ages) ==
    ZCard([sc \in {x \in DOMAIN rpmSeen.admitted : clock - x \in ages} |->
              rpmSeen.admitted[sc]])

\* the result of the call that has just returned is the one a count of live
\* admitted requests dictates
RpmResultCounts(live) ==
    /\ last.res.current = live
    /\ last.res.allowed => live <= rpmLimit
    /\ ~last.res.allowed => live >= rpmLimit

\* C13 as stated: entries older than 60 s are evicted and all entries no
\* older than 60 s, the one of age exactly 60 s included, are counted.
C13_CountsNoOlderThan60s ==
    RpmCounted => RpmResultCounts(AdmittedAged(0..RpmWindowSeconds))

\* C13: with the cache reachable, checkUserRPM counts exactly the admitted
\* requests younger than 60 s: entries of age 60 s or more are evicted on
\* each call, so a user at the limit is admitted again as soon as the oldest
\* counted request is 60 s old.
C13_CountsYoungerThan60s ==
    RpmCounted => RpmResultCounts(AdmittedAged(0..(RpmWindowSeconds - 1)))

\* a user at limit 1, admitted at 0 and denied since, is admitted at 60
C13_Witness ==
    /\ RpmCounted
    /\ rpmLimit = 1
    /\ clock = RpmWindowSeconds
    /\ 0 \in DOMAIN rpmSeen.admitted
    /\ rpmSeen.n >= 3
    /\ last.res.allowed

\* ------------------------------------------------------------------------
\* Properties of the boolean checks under cache faults (GateSpec)
\* ------------------------------------------------------------------------

\* the steps in which a checkUserRPM call, a checkSessionLimit call and a
\* checkAndTrackProviderSession call return
RpmReturns == last'.op = "checkUserRPM" /\ rpmSeen'.n # rpmSeen.n
SessionCheckReturns == last'.op = "checkSessionLimit" /\ call' = call /\ last' # last
ClaimReturns(c) == call[c].pc # "done" /\ call'[c].pc = "done"

\* C14: with no cache client, a client that is not ready, or a cache command
\* that fails, checkUserRPM, checkSessionLimit and
\* checkAndTrackProviderSession return allowed=true, the latter with
\* tracked=false and the registry as it was; none returns a denial.
C14_FailOpen ==
    [][~(redisClient /\ redisCommandOk) =>
          /\ RpmReturns => last'.res.allowed
          /\ SessionCheckReturns => last'.res.allowed
          /\ \A c \in Callers : ClaimReturns(c) =>
                 /\ call'[c].ret.allowed /\ ~call'[c].ret.tracked
                 /\ activeSessions' = activeSessions]_vars

\* with the registry at its limit and the request-rate window full, the
\* cache commands fail and all three checks have let the caller through
C14_Witness ==
    /\ redis = "erroring"
    /\ last.op = "checkSessionLimit" /\ last.res.via = "caught"
    /\ Cardinality(activeSessions[1]) >= sessionLimit[1] /\ sessionLimit[1] > 0
    /\ call[1].pc = "done" /\ call[1].ret.via = "error"
    /\ rpmLimit > 0 /\ ZCard(RpmEntries(rpmWindow, KeyRpm(1))) >= rpmLimit
    /\ rpmSeen.n > rpmLimit /\ ~rpmSeen.clean

\* ------------------------------------------------------------------------
\* Properties of the checks under unlimited ceilings (OpenSpec)
\* ------------------------------------------------------------------------

\* the index of the window named name
WindowIndex(name) == CHOOSE i \in 1..4 : WindowNames[i] = name

\* C15: a null or <= 0 ceiling is unlimited. In every state, whatever the
\* counters hold: checkCostLimits denies only on a window whose ceiling is
\* positive; checkUserRPM, checkUserDailyCost and checkSessionLimit called
\* with a null, zero or negative ceiling allow, checkUserRPM recording
\* nothing; a checkAndTrackProviderSession call made under such a ceiling
\* has returned allowed=true, tracked=false without running the script.
C15_NoCeilingIsUnlimited ==
    /\ \A scope \in Scopes, ceilings \in OpenCeilings \cup Ceilings :
           LET res == CheckResult(scope, ceilings)
           IN  ~res.allowed /\ ~res.error => ceilings[WindowIndex(res.name)] > 0
    /\ \A u \in UserIds, l \in NoCeilings :
           /\ checkUserRPMOn(u, l, rpmWindow, clock).res.allowed
           /\ checkUserRPMOn(u, l, rpmWindow, clock).w = rpmWindow
           /\ checkUserDailyCostOn(u, l, Cache).res.allowed
    /\ \A p \in SessionProviders, l \in NoCeilings : checkSessionLimitOn(p, l).allowed
    /\ \A c \in Callers :
           call[c].pc = "done" /\ call[c].limit <= 0 =>
               /\ call[c].ret.allowed /\ ~call[c].ret.tracked
               /\ call[c].after = NoRegistry

\* the user's request-rate window is full, the user's daily counter and the
\* key's 5h window hold spend, the provider's registry holds a session: a
\* claim under a null session ceiling has been let through unregistered and
\* checkCostLimits has just allowed
C15_Witness ==
    /\ last.op = "checkCostLimits" /\ last.res.allowed
    /\ Key5h("key", 1) \in DOMAIN zsets
    /\ KeyUserDaily(1) \in DOMAIN strings /\ strings[KeyUserDaily(1)].val > 0
    /\ ZCard(RpmEntries(rpmWindow, KeyRpm(1))) = MaxRpmLimit
    /\ activeSessions[1] # {}
    /\ sessionLimit[1] = Null
    /\ call[1].pc = "done" /\ call[1].ret.via = "unlimited"

\* ------------------------------------------------------------------------
\* Properties of the cache keys (KeySpec)
\* ------------------------------------------------------------------------

\* a and b name the same counter: the same entity and window, for the daily
\* window the same mode, and for the fixed daily window the same reset time
\* of day
SameCounter(a, b) ==
    /\ a.type = b.type /\ a.id = b.id /\ a.period = b.period
    /\ a.period = "daily" =>
          /\ a.resetMode = b.resetMode
          /\ a.resetMode = "fixed" =>
                ParseResetTime(a.resetTime) = ParseResetTime(b.resetTime)

\* C16: cache keys are collision-free: two counters that differ in scope
\* (key or provider), numeric id, window (5h, daily, weekly, monthly), daily
\* mode (fixed or rolling) or, for the fixed daily counter, normalized reset
\* time never share a key.
C16_KeysCollisionFree ==
    last.op = "costKeys" /\ last.keyA = last.keyB => SameCounter(last.a, last.b)

\* the fixed daily keys of key 1 for the reset times 18:00 and 18:30
C16_Witness ==
    /\ last.op = "costKeys"
    /\ last.a = [type |-> "key", id |-> 1, period |-> "daily",
                 resetTime |-> "18:00", resetMode |-> "fixed"]
    /\ last.b = [type |-> "key", id |-> 1, period |-> "daily",
                 resetTime |-> "18:30", resetMode |-> "fixed"]
    /\ last.keyA = "key:1:cost_daily_1800"
    /\ last.keyB = "key:1:cost_daily_1830"

\* ------------------------------------------------------------------------
\* Properties of the 5h rolling window (WindowSpec)
\* ------------------------------------------------------------------------

\* the costs appended at an instant t with t <= now < t + 5h
AppendedInWindow ==
    SumEntries(appended, {t \in DOMAIN appended : t <= now /\ now < t + Window5h})

\* the 5h window of key 1 as getCurrentCost reads it in the present state
Read5h ==
    getCurrentCostOn(1, "key", "5h", dailyReset["key"].time, dailyReset["key"].mode, Cache)

\* C17: an entry written to the 5h window at t is included in every sum read
\* at t' with t <= t' < t + 5h and excluded from every sum read at
\* t' >= t + 5h; the operation that reads or writes the window leaves no
\* entry of age 5h or more behind.
C17_FiveHourWindow ==
    /\ Read5h.value = AppendedInWindow
    /\ Key5h("key", 1) \in DOMAIN Read5h.cache.z =>
           \A t \in DOMAIN Read5h.cache.z[Key5h("key", 1)] : now < t + Window5h
    /\ (last.op = "trackCost" \/ last.op = "getCurrentCost") /\ Key5h("key", 1) \in DOMAIN zsets =>
           \A t \in DOMAIN zsets[Key5h("key", 1)] : now < t + Window5h

\* costs were appended at 5033 and at 5034; the read at 5038 = 5033 + 5h
\* returns the second one only and has evicted the first
C17_Witness ==
    /\ last.op = "getCurrentCost" /\ last.source = "cache"
    /\ now = 5038
    /\ appended = (5033 :> 4) @@ (5034 :> 6)
    /\ last.value = 6
    /\ DOMAIN zsets[Key5h("key", 1)] = {5034}

\* ------------------------------------------------------------------------
\* Properties of the fixed daily counter's TTL (CostSpec)
\* ------------------------------------------------------------------------

\* C18: every write to a fixed daily counter sets its TTL to the time left
\* until the next occurrence of the configured reset time: a counter the
\* cache holds expires at the first reset instant after the present one, so
\* none carries spend across its reset.
C18_FixedDailyExpiresAtReset ==
    \A scope \in Scopes :
        LET reset == dailyReset[scope[1]]
            key == KeyFixed(scope[1], scope[2], "daily", reset.time)
        IN  reset.mode = "fixed" /\ key \in DOMAIN strings =>
                /\ strings[key].exp = NextDailyReset(now, normalizeResetTime(reset.time))
                /\ strings[key].exp > now

\* a cost of 4 was tracked at 17:00, one hour before the 18:00 reset of key
\* 1, and a cost of 6 at 18:00: the counter holds 6 and expires at the next
\* 18:00
C18_Witness ==
    /\ last.op = "trackCost" /\ last.applied
    /\ now = 5034
    /\ appended = (5033 :> 4) @@ (5034 :> 6)
    /\ DailyCounter \in DOMAIN strings
    /\ strings[DailyCounter] = [val |-> 6, exp |-> 5034 + DayHours]

\* ------------------------------------------------------------------------
\* Properties of getCurrentCost under faults (LookupSpec)
\* ------------------------------------------------------------------------

\* getCurrentCost meets an error it cannot recover from: a cache command of
\* its fast path is rejected, or the durable store is down when it is
\* consulted (no usable cache client, or the counter is not in the cache)
LookupFails(scope, period) ==
    \/ redis = "erroring"
    \/ /\ ~dbUp
       /\ \/ redis \in {"null", "connecting"}
          \/ ~CounterPresent(scope[1], scope[2], period)

\* C19: getCurrentCost never raises to its caller: it returns a value read
\* from the cache or from the ledger, and on an error it cannot recover
\* from, a fault of the durable store included, it returns 0 and leaves the
\* cache as it is.
C19_GetCurrentCostNeverRaises ==
    \A scope \in Scopes, period \in PeriodSet :
        LET r == CurrentCost(scope, period)
        IN  /\ r.source \in {"cache", "db", "caught"}
            /\ LookupFails(scope, period) =>
                   r.value = 0 /\ r.source = "caught" /\ r.cache = Cache
            /\ ~LookupFails(scope, period) => r.source \in {"cache", "db"}

\* with no usable cache client and the durable store down while the ledger
\* holds spend of the key, getCurrentCost has just returned 0
C19_Witness ==
    /\ last.op = "getCurrentCost" /\ last.source = "caught" /\ last.value = 0
    /\ redis = "null" /\ ~dbUp
    /\ ledger # <<>>
    /\ last.period = "monthly"

\* ------------------------------------------------------------------------
\* Properties of the circuit breaker (CircuitSpec)
\* ------------------------------------------------------------------------

\* C20: the circuit leaves closed only in a step that records a failure
\* which is at least the failureThreshold-th in a row; a success recorded
\* while closed leaves the failure counter at 0; and while the circuit is
\* open and openDuration has not elapsed since it opened, isAvailable
\* returns false and leaves it open.
C20_OpensAtThreshold ==
    [][/\ (circuit.state = "closed" /\ circuit'.state # "closed") =>
              /\ last'.op = "recordFailure"
              /\ circuit'.state = "open" /\ circuit'.openedAt = clock
              /\ streak' >= circuitConfig.failureThreshold
       /\ (circuit.state = "closed" /\ last'.op = "recordFailure"
              /\ streak' >= circuitConfig.failureThreshold) => circuit'.state = "open"
       /\ (circuit.state = "closed" /\ last'.op = "recordSuccess") =>
              circuit'.state = "closed" /\ circuit'.consecutiveFailures = 0
       /\ (circuit.state = "open" /\ clock < circuit.openedAt + circuitConfig.openDuration
              /\ last'.op = "isAvailable") =>
              ~last'.available /\ circuit' = circuit
       /\ (circuit.state = "open" /\ circuit'.state # "open") =>
              \/ last'.op = "resetProviderCircuit"
              \/ clock >= circuit.openedAt + circuitConfig.openDuration]_vars

\* after a failure, a success and three failures in a row under a threshold
\* of 3 the circuit opened at 10; asked at 1809, one second before the open
\* duration has elapsed, isAvailable has returned false
C20_Witness ==
    /\ last.op = "isAvailable" /\ ~last.available
    /\ circuitConfig.failureThreshold = MaxFailureThreshold
    /\ circuit.state = "open" /\ circuit.openedAt = 10
    /\ circuit.consecutiveFailures = MaxFailureThreshold
    /\ streak = MaxFailureThreshold
    /\ clock = 1809

\* the open duration of the circuit has elapsed at the clock's instant
OpenElapsed == clock >= circuit.openedAt + circuitConfig.openDuration

\* C21: once openDuration has elapsed in the open state the next isAvailable
\* turns the circuit half-open and returns true; a success recorded while
\* half-open closes the circuit, all counters zeroed, exactly when it is the
\* halfOpenSuccessThreshold-th in a row, and a failure recorded while
\* half-open reopens it with the timer restarted at that instant and the
\* failure counter counted on; the state changes in no other way but by a
\* failure at the threshold while closed and by the manual reset, which
\* leaves a closed circuit with zeroed counters.
C21_HalfOpenTransitions ==
    [][/\ (circuit.state = "open" /\ OpenElapsed /\ last'.op = "isAvailable") =>
              /\ circuit'.state = "half_open"
              /\ last'.available
       /\ (circuit.state = "half_open" /\ last'.op = "recordSuccess") =>
              /\ circuit'.state = "closed" <=> trial' >= circuitConfig.halfOpenSuccessThreshold
              /\ circuit'.state = "closed" => circuit' = ClosedCircuit
              /\ circuit'.state \in {"closed", "half_open"}
       /\ (circuit.state = "half_open" /\ last'.op = "recordFailure") =>
              /\ circuit'.state = "open"
              /\ circuit'.openedAt = clock
              /\ circuit'.consecutiveFailures = circuit.consecutiveFailures + 1
       /\ last'.op = "resetProviderCircuit" => circuit' = ClosedCircuit
       /\ (circuit'.state # circuit.state /\ last'.op # "resetProviderCircuit") =>
              \/ /\ circuit.state = "closed" /\ circuit'.state = "open"
                 /\ last'.op = "recordFailure"
              \/ /\ circuit.state = "open" /\ circuit'.state = "half_open"
                 /\ last'.op = "isAvailable" /\ OpenElapsed
              \/ /\ circuit.state = "half_open" /\ circuit'.state = "closed"
                 /\ last'.op = "recordSuccess"
              \/ /\ circuit.state = "half_open" /\ circuit'.state = "open"
                 /\ last'.op = "recordFailure"]_vars

\* the circuit opened at 0, turned half-open at 1800 or later and a failure
\* recorded at 1810 has reopened it with the timer restarted there: the
\* second failure under a threshold of 1
C21_Witness ==
    /\ last.op = "recordFailure"
    /\ circuitConfig.failureThreshold = 1
    /\ circuit.state = "open" /\ circuit.openedAt = 1810
    /\ circuit.consecutiveFailures = 2
    /\ clock = 1810

\* ------------------------------------------------------------------------
\* Properties of the provider selector (SelectSpec)
\* ------------------------------------------------------------------------

\* the candidates that pass every check
Available == {c \in pool.candidates : pool.health[c] = "ok"}

SelectDone == selection.pc = "done"

\* at most MaxAttempts forwarding attempts, no provider forwarded to twice
AttemptsBounded ==
    /\ Len(selection.attempted) <= MaxAttempts
    /\ Cardinality(Attempted(selection)) = Len(selection.attempted)
    /\ Attempted(selection) \subseteq Available
    /\ selection.failed \subseteq Attempted(selection)

\* the terminal outcomes
SelectOutcome ==
    SelectDone =>
        \/ /\ selection.outcome.kind = "success"
           /\ selection.outcome.attemptCount = Len(selection.attempted)
           /\ selection.outcome.attemptCount \in 1..MaxAttempts
           /\ selection.outcome.providerId = selection.attempted[Len(selection.attempted)]
           /\ selection.failed = Attempted(selection) \ {selection.outcome.providerId}
        \/ /\ selection.outcome.kind = "exhausted"
           /\ selection.failed = Attempted(selection)
           /\ selection.outcome.filteredProviders = selection.filtered
           /\ \A c \in DOMAIN selection.filtered :
                  c \in pool.candidates /\ selection.filtered[c] = pool.health[c]
                     /\ selection.filtered[c] \in Unavailable

\* one available candidate: success on it at the first attempt, unless the
\* forwarding to it is what failed
LastCandidate ==
    (SelectDone /\ Cardinality(Available) = 1) =>
        \A a \in Available :
            \/ selection.outcome = success(a, 1)
            \/ selection.outcome.kind = "exhausted" /\ selection.failed = {a}

\* candidates, none of them available: exhausted, every candidate listed
NoneAvailable ==
    (SelectDone /\ Available = {} /\ pool.candidates # {}) =>
        /\ selection.outcome.kind = "exhausted"
        /\ selection.attempted = <<>>
        /\ DOMAIN selection.outcome.filteredProviders = pool.candidates
        /\ selection.outcome.filteredProviders # EmptyMap

\* C22: selectProvider terminates, with success(providerId, attemptCount)
\* or exhausted(filteredProviders); it forwards at most 3 times and never
\* twice to one provider; where one candidate alone is available it
\* succeeds on that one at the first attempt unless the forwarding to it
\* fails; and where there are candidates and none is available it returns
\* exhausted with every candidate in the filtered list.
C22_SelectTerminates ==
    /\ [](AttemptsBounded /\ SelectOutcome /\ LastCandidate /\ NoneAvailable)
    /\ <>SelectDone

\* all four providers are candidates and pass their checks; the forwarding
\* to three of them has failed and the request is exhausted with the
\* fourth never tried
C22_Witness ==
    /\ SelectDone
    /\ pool.candidates = Providers /\ Available = Providers
    /\ Len(selection.attempted) = MaxAttempts
    /\ Cardinality(selection.failed) = MaxAttempts
    /\ selection.outcome = exhausted(EmptyMap)

\* ------------------------------------------------------------------------
\* Properties of the cost limiter after a loss of the cache (CostSpec)
\* ------------------------------------------------------------------------

\* the configured windows in which the ledger's sum has reached the ceiling
LedgerBreached(scope, ceilings) ==
    {i \in Configured(ceilings) :
        LedgerSum(scope[1], scope[2], WindowNames[i]) >= ceilings[i]}

\* C23: starting from a cache that holds no counter, after any sequence of
\* trackCost and checkCostLimits calls, checkCostLimits denies whenever the
\* ledger's sum of some configured window has reached that window's limit.
C23_NoOverspendAfterFlush ==
    dbUp =>
        \A scope \in Scopes, ceilings \in Ceilings :
            LedgerBreached(scope, ceilings) # {} => ~CheckResult(scope, ceilings).allowed

\* ------------------------------------------------------------------------
\* Properties of the cache warming (ReadSpec)
\* ------------------------------------------------------------------------

\* no trackCost call has been made
NothingTracked == budget.track = MaxTrack

\* C24: while no trackCost call has been made, whatever checkCostLimits and
\* getCurrentCost calls have consulted the ledger and warmed the cache,
\* every counter the cache holds, fixed or rolling, reads as the ledger's
\* sum of its window.
C24_WarmingNeverInflates ==
    NothingTracked =>
        \A scope \in Scopes, period \in PeriodSet :
            CounterPresent(scope[1], scope[2], period) =>
                CounterValue(scope[1], scope[2], period) = LedgerSum(scope[1], scope[2], period)

\* ------------------------------------------------------------------------
\* Properties of the request-rate limiter under concurrency (RaceSpec)
\* ------------------------------------------------------------------------

\* the calls admitted with a Date.now() in the 60 seconds from s on
AdmittedInSpan(s) ==
    ZCard([sc \in {x \in DOMAIN rpmSeen.admitted : s <= x /\ x < s + RpmWindowSeconds} |->
              rpmSeen.admitted[sc]])

\* C25 as stated: however the checkUserRPM calls of one user with a limit
\* R > 0 interleave, at most R calls are admitted in any 60-second span.
C25_CeilingUnderConcurrency ==
    \A s \in DOMAIN rpmSeen.admitted : AdmittedInSpan(s) <= rpmLimit

\* C25: the calls of one user with a limit R > 0 admitted in any 60-second
\* span are at most R while no call counts between another call's count
\* and insert, and at most R + N - 1 among N concurrent callers.
C25_CeilingWithoutOverlap ==
    \A s \in DOMAIN rpmSeen.admitted :
        /\ AdmittedInSpan(s) <= rpmLimit + NCallers - 1
        /\ ~overlapped => AdmittedInSpan(s) <= rpmLimit

\* under the limit 1 every caller has counted 0 before any has inserted,
\* and all are admitted at the same instant
C25_Witness ==
    /\ rpmLimit = 1
    /\ overlapped
    /\ \A c \in Callers : rpmCall[c].pc = "done" /\ rpmCall[c].res.allowed
                              /\ rpmCall[c].res.current = 1
    /\ AdmittedInSpan(0) = NCallers

\* ------------------------------------------------------------------------
\* Properties of the user's daily check under cache faults (FaultSpec)
\* ------------------------------------------------------------------------

\* C26: when the cache is not ready or its read raises and the durable
\* store is healthy, checkUserDailyCost decides on sumUserCostToday(userId):
\* it denies, with that sum as the current value, exactly when the sum has
\* reached the daily limit.
C26_DegradesToLedger ==
    (~CacheReachable /\ dbUp) =>
        \A userId \in UserIds, D \in {4, 10} :
            LET res == checkUserDailyCostOn(userId, D, Cache).res
            IN  /\ res.allowed <=> sumUserCostToday(userId) < D
                /\ ~res.allowed => res.current = sumUserCostToday(userId)

\* caller c's checkUserRPM call returns a denial in this step
RpmDenies(c) ==
    /\ rpmCall[c].pc # "counted"
    /\ rpmCall'[c] # rpmCall[c]
    /\ rpmCall'[c].pc = "done"
    /\ ~rpmCall'[c].res.allowed

\* the entries of the user's window younger than 60 seconds
Unexpired(userId) ==
    [sc \in {x \in DOMAIN RpmEntries(rpmWindow, KeyRpm(userId)) :
                clock - x < RpmWindowSeconds} |->
        RpmEntries(rpmWindow, KeyRpm(userId))[sc]]

\* C27: a checkUserRPM call that is denied leaves in the user's window
\* exactly the entries younger than 60 seconds it held before the call,
\* with the key's time to live as it was, and admits nothing.
C27_DenialRecordsNothing ==
    [][\A c \in Callers, userId \in UserIds :
          RpmDenies(c) =>
              /\ RpmEntries(rpmWindow', KeyRpm(userId)) = Unexpired(userId)
              /\ KeyRpm(userId) \in DOMAIN rpmWindow' =>
                     rpmWindow'[KeyRpm(userId)].exp = rpmWindow[KeyRpm(userId)].exp
              /\ rpmSeen'.admitted = rpmSeen.admitted
              /\ rpmCall'[c].res.current = ZCard(Unexpired(userId))]_vars

\* under the limit 1 two overlapping calls were admitted at 0 and at 30;
\* the third call, at 60, has evicted the entry of 0 and was denied on the
\* entry of 30, which is all the window holds
C27_Witness ==
    /\ rpmLimit = 1
    /\ clock = 60
    /\ rpmSeen.n = 3
    /\ rpmSeen.admitted = (0 :> 1) @@ (30 :> 1)
    /\ \E c \in Callers : /\ rpmCall[c].pc = "done" /\ ~rpmCall[c].res.allowed
                            /\ rpmCall[c].now = 60
    /\ RpmEntries(rpmWindow, KeyRpm(1)) = (30 :> 1)

\* ------------------------------------------------------------------------
\* Properties of the error-rule detector (RefreshSpec, ReloadSpec)
\* ------------------------------------------------------------------------

\* C28: whenever no reload is in progress, every errorRulesUpdated event
\* having been handled by its listener, the detector's caches are the ones
\* a reload builds from the active rules the store holds.
C28_CacheFollowsStore ==
    ~detector.isLoading =>
        Caches(detector) = LoadRules(NoCaches, getActiveErrorRules(errorRules))

\* the query of the reload in progress fails in this step
ReloadFails == reloading.pc = "querying" /\ reloading'.pc = "failed"

\* C29: a reload whose query fails leaves the contains, exact and regex
\* caches as they were when it started and releases the loading guard, so
\* that the next reload call is not skipped.
C29_FailedReloadKeepsCaches ==
    [][ReloadFails =>
          /\ Caches(detector') = reloading.before
          /\ Caches(detector') = Caches(detector)
          /\ ~detector'.isLoading
          /\ reloadEnter(detector', reloading').reloading.pc = "querying"]_vars

\* the caches hold the rules of an earlier reload; the defaults have been
\* inserted since, and the reload their event started has failed on the
\* durable store being down: the caches are still the older ones
C29_Witness ==
    /\ reloading.pc = "failed"
    /\ ~dbUp
    /\ ~detector.isLoading
    /\ Caches(detector) = reloading.before
    /\ Len(detector.containsPatterns) = 1
    /\ DOMAIN detector.exactPatterns = {"invalid api key"}
    /\ detector.regexPatterns = <<>>
    /\ \E r \in errorRules.rows : r.id = 1

\* ------------------------------------------------------------------------
\* Properties of provider administration (AdminSpec)
\* ------------------------------------------------------------------------

AdminOps ==
    {"addProvider", "editProvider", "removeProvider", "resetProviderCircuit",
     "getUnmaskedProviderKey"}

\* the caller has no session, or one whose role is not admin
NotAdmin == ~session.signedIn \/ session.role # "admin"

\* C30: a call of addProvider, editProvider, removeProvider,
\* resetProviderCircuit or getUnmaskedProviderKey made without a session
\* whose role is admin returns ok = false with no provider key, and leaves
\* the provider records, the saved and the cached circuit-breaker
\* configuration and the circuit's state as they were.
C30_AdminOnly ==
    [][(NotAdmin /\ last'.op \in AdminOps) =>
        /\ last'.res.ok = FALSE
        /\ "data" \notin DOMAIN last'.res
        /\ providerRows' = providerRows
        /\ circuitConfigs' = circuitConfigs
        /\ circuitConfig' = circuitConfig
        /\ circuit' = circuit]_vars

\* a signed-in user without the role was just refused the key of a live
\* provider whose circuit is open and whose configuration is saved
C30_Witness ==
    /\ session = UserSession
    /\ last.op = "getUnmaskedProviderKey"
    /\ last.res.ok = FALSE
    /\ last.providerId \in DOMAIN providerRows
    /\ ~providerRows[last.providerId].deleted
    /\ last.providerId \in DOMAIN circuitConfigs
    /\ circuit.state = "open"

====
